---- MODULE Spec2Model ----
(***************************************************************************)
(* Time-dynamic imagery layer controller of ImageryLayerCatalogItem        *)
(* (src/unnamed/part_001), driven by the catalog item's enable / show      *)
(* lifecycle and by the ticks of terria.clock, against the viewer's layer  *)
(* operations (GlobeOrMap, src/unnamed/part_002).                          *)
(*                                                                         *)
(* Times are integers.  Interval indices are 0-based as in the source; the *)
(* i-th interval of the collection is ivs[i + 1].  Opacities are in tenths *)
(* (6 is the source's 0.6).  A layer handle is the ordinal of the          *)
(* addImageryProvider call that returned it; None is "undefined".          *)
(***************************************************************************)
EXTENDS Integers, Sequences, FiniteSets, TLC

\* ------------------------------------------------------------------ bounds
MaxLayers == 5
MaxTime == 5

\* ------------------------------------------------------- program constants
DefaultOpacity == 6
NoIntervalIndex == -1
UndefinedIndex == -2
None == 0

Times == 0..MaxTime
Multipliers == {-1, 0, 1}
Opacities == {0, DefaultOpacity, 10}
Handles == 1..MaxLayers

\* An interval of a TimeIntervalCollection with its imagery token.
Interval(a, b, startIncl, stopIncl, d) ==
    [start |-> a, stop |-> b, isStartIncluded |-> startIncl,
     isStopIncluded |-> stopIncl, data |-> d]

\* The interval collections an item is configured with: none at all, an empty
\* one, three contiguous intervals (as TimeIntervalCollection.addInterval leaves
\* them: a shared end point belongs to the later interval, the last stop is
\* included), and two closed intervals separated by a gap.
NoIntervals == [def |-> FALSE, ivs |-> << >>]
EmptyIntervals == [def |-> TRUE, ivs |-> << >>]
Contiguous ==
    [def |-> TRUE,
     ivs |-> << Interval(1, 2, TRUE, FALSE, "a"),
                Interval(2, 3, TRUE, FALSE, "b"),
                Interval(3, 4, TRUE, TRUE, "c") >>]
Gapped ==
    [def |-> TRUE,
     ivs |-> << Interval(0, 1, TRUE, TRUE, "a"),
                Interval(3, 4, TRUE, TRUE, "b") >>]
Configurations == {NoIntervals, EmptyIntervals, Contiguous, Gapped}

VARIABLES
    intervals,              \* catalogItem.intervals
    clockTime,              \* terria.clock.currentTime
    multiplier,             \* terria.clock.multiplier
    isEnabled,              \* catalogItem.isEnabled
    isShown,                \* catalogItem.isShown
    opacity,                \* catalogItem.opacity
    imageryLayer,           \* catalogItem._imageryLayer
    nextLayer,              \* catalogItem._nextLayer
    currentIntervalIndex,   \* catalogItem._currentIntervalIndex
    nextIntervalIndex,      \* catalogItem._nextIntervalIndex
    clockTickSubscription,  \* catalogItem._clockTickSubscription is defined
    onTickListeners,        \* listeners of this item on terria.clock.onTick
    failedToken,            \* data of the layer whose error callback fired last
    initialTimeSource,      \* catalogItem.initialTimeSource
    _clock,                 \* catalogItem._clock
    now,                    \* JulianDate.now() at the last read of catalogItem.clock
    lastError,              \* the TerriaError thrown by the last operation
    supportsIntervals,      \* catalogItem.supportsIntervals
    json,                   \* the json last given to defaultUpdaters.intervals
    layers,                 \* the viewer's record of every layer handle
    numCreated,             \* addImageryProvider calls so far
    calls,                  \* viewer calls issued by the last handler, in order
    threw,                  \* the last handler ended by an exception
    lastOp,                 \* the last handler that ran
    notifications,          \* viewState.notifications
    lastEvent,              \* the error last raised on terria.error
    colorBrewerJSON,        \* ColorMap.colorBrewerJSON
    requests,               \* loadJson calls for the palette file so far
    loadState,              \* the state of the loadJson request
    callers,                \* the promises colorBrewerFile has returned
    _tilesLoadingCountMax,  \* globeOrMap._tilesLoadingCountMax
    progressEvent,          \* the pair last raised on terria.tileLoadProgressEvent
    counts,                 \* the counts given to updateTilesLoadingCount so far
    _removeHighlightCallback, \* globeOrMap._removeHighlightCallback
    _highlightPromise,      \* globeOrMap._highlightPromise
    styling,                \* polygon and polyline graphics of each feature
    highlightItems,         \* the catalog items created for highlights
    numHighlightItems,      \* GeoJsonCatalogItems created by _highlightFeature so far
    serialized,             \* the json last given to defaultSerializers.intervals
    searchText,             \* searchBox.props.searchText
    debounceTimeout,        \* searchBox.debounceTimeout
    timers,                 \* the timeouts set and neither fired nor cleared
    numTimers,              \* setTimeout calls of the search box so far
    mounted,                \* the search box is mounted
    searchBoxOp,            \* the last handler of the search box that ran
    searched,               \* the text of the last props.onDoSearch call
    enableInputs,           \* scene.screenSpaceCameraController.enableInputs
    tweens,                 \* the tweens flyToPosition has added to scene.tweens
    numTweens,              \* scene.tweens.add calls of the zoom control so far
    controllerDestroyed,    \* controller.isDestroyed()
    pickedFeatures,         \* terria.pickedFeatures, by the number of the pick
    picks,                  \* the PickedFeatures objects created so far
    numPicks,               \* picks made so far
    selectedFeature         \* terria.selectedFeature

\* The catalog item, its clock and the viewer.
itemVars == << intervals, clockTime, multiplier, isEnabled, isShown, opacity,
               imageryLayer, nextLayer, currentIntervalIndex, nextIntervalIndex,
               clockTickSubscription, onTickListeners, layers, numCreated, calls,
               threw, lastOp, failedToken, initialTimeSource, _clock, now,
               lastError, supportsIntervals, json >>

\* The view state.
viewStateVars == << notifications, lastEvent >>

\* The color map's palette file.
colorMapVars == << colorBrewerJSON, requests, loadState, callers >>

\* The viewer's tile load progress.
tilesVars == << _tilesLoadingCountMax, progressEvent, counts >>

\* The viewer's feature highlight.
highlightVars == << _removeHighlightCallback, _highlightPromise, styling,
                    highlightItems, numHighlightItems >>

\* The destination of the item's serialization.
serializeVars == << serialized >>

\* The search box.
searchBoxVars == << searchText, debounceTimeout, timers, numTimers, mounted,
                    searchBoxOp, searched >>

\* The zoom control and the scene's camera controller.
zoomVars == << enableInputs, tweens, numTweens, controllerDestroyed >>

\* The feature info panel and the picks it follows.
panelVars == << pickedFeatures, picks, numPicks, selectedFeature >>

\* Everything outside the catalog item's layers, clock and intervals.
viewVars == << viewStateVars, colorMapVars, tilesVars, highlightVars,
               serializeVars, searchBoxVars, zoomVars, panelVars >>

MaxPicks == 3

\* A pick not made yet.
NoPick == [features |-> << >>, promise |-> "none"]

\* terria.selectedFeature is undefined.
NoFeature == [pick |-> 0, feature |-> "undefined"]

MaxTweens == 3

\* A tween not added yet.
NoTween == [zoom |-> "none", state |-> "none"]

MaxItems == 3

\* The features that can be picked: with a polygon, a polyline, both, none
\* but data that converts to a non-point geometry, none and a point.
Features == {"area", "line", "both", "raster", "point"}

\* A feature's polygon and polyline graphics before any highlight.
OriginalStyling ==
    [polygon |-> [outline |-> FALSE, outlineColor |-> "black", material |-> "white"],
     polyline |-> [material |-> "blue", width |-> 1]]

\* _removeHighlightCallback is undefined.
NoCallback ==
    [kind |-> "undefined", feature |-> "", item |-> 0,
     polygon |-> OriginalStyling.polygon, polyline |-> OriginalStyling.polyline]

\* A highlight catalog item not created yet.
NoItem == [load |-> "none", enabled |-> FALSE, shown |-> FALSE, removing |-> FALSE]

vars == << itemVars, viewVars >>

\* No error raised yet.
NoEvent == [sender |-> "", title |-> "", message |-> ""]

\* The view models and components after their construction.
ViewInit ==
    /\ notifications = << >>
    /\ lastEvent = NoEvent
    /\ colorBrewerJSON = [kind |-> "undefined", value |-> ""]
    /\ requests = 0
    /\ loadState = "none"
    /\ callers = << >>
    /\ _tilesLoadingCountMax = 0
    /\ progressEvent = << 0, 0 >>
    /\ counts = << >>
    /\ _removeHighlightCallback = NoCallback
    /\ _highlightPromise = 0
    /\ styling = [f \in Features |-> OriginalStyling]
    /\ highlightItems = [i \in 1..MaxItems |-> NoItem]
    /\ numHighlightItems = 0
    /\ serialized = [def |-> FALSE, entries |-> << >>]
    /\ searchText = ""
    /\ debounceTimeout = 0
    /\ timers = {}
    /\ numTimers = 0
    /\ mounted = TRUE
    /\ searchBoxOp = "mount"
    /\ searched = "none"
    /\ enableInputs = TRUE
    /\ tweens = [t \in 1..MaxTweens |-> NoTween]
    /\ numTweens = 0
    /\ controllerDestroyed = FALSE
    /\ pickedFeatures = 0
    /\ picks = [p \in 1..MaxPicks |-> NoPick]
    /\ numPicks = 0
    /\ selectedFeature = NoFeature

\* ------------------------------------------------------ TimeIntervalCollection
NumIntervals == Len(intervals.ivs)

\* TimeInterval.contains(interval, date)
Contains(iv, t) ==
    \/ iv.start < t /\ t < iv.stop
    \/ t = iv.start /\ iv.isStartIncluded
    \/ t = iv.stop /\ iv.isStopIncluded

\* binarySearch(intervals, date, compareIntervalStartTimes): the index of the
\* interval starting at t, or the complement of the insertion point.
Complement(i) == -i - 1

InsertionPoint(ivs, t) == Cardinality({k \in 1..Len(ivs) : ivs[k].start < t})

StartSearch(ivs, t) ==
    IF \E k \in 1..Len(ivs) : ivs[k].start = t
    THEN (CHOOSE k \in 1..Len(ivs) : ivs[k].start = t) - 1
    ELSE Complement(InsertionPoint(ivs, t))

\* indexOf answering from the search on start times alone.
IndexOfStartsOnly(ivs, t) == StartSearch(ivs, t)

\* TimeIntervalCollection.prototype.indexOf(date)
IndexOf(ivs, t) ==
    LET found == StartSearch(ivs, t) IN
    IF found >= 0
    THEN IF ivs[found + 1].isStartIncluded THEN found
         ELSE IF /\ found > 0
                 /\ ivs[found].stop = t
                 /\ ivs[found].isStopIncluded
              THEN found - 1
              ELSE Complement(found)
    ELSE LET ins == Complement(found) IN
         IF ins > 0 /\ ins - 1 < Len(ivs) /\ Contains(ivs[ins], t)
         THEN ins - 1
         ELSE Complement(ins)

\* intervals.get(index).data
DataAt(index) == intervals.ivs[index + 1].data

\* ------------------------------------------------------------------- viewer
\* A handler's working state: the item's private fields and the viewer.
NoLayer == [destroys |-> 0, show |-> FALSE, alpha |-> 0, pick |-> FALSE, token |-> "none"]

Call(op, h, v) == [op |-> op, h |-> h, v |-> v]

\* GlobeOrMap.addImageryProvider: a new layer, hidden, at options.opacity.
addImageryProvider(s, token, alpha, pick) ==
    LET h == s.n + 1 IN
    [s EXCEPT !.n = h,
              !.layers[h] = [destroys |-> 0, show |-> FALSE, alpha |-> alpha,
                             pick |-> pick, token |-> token],
              !.calls = Append(@, Call("create", h, alpha))]

\* GlobeOrMap.removeImageryLayer: the viewer drops the layer and destroys it;
\* of a destroyed layer only the number of removals (up to 2) is kept.
removeImageryLayer(s, h) ==
    [s EXCEPT !.layers[h] = [NoLayer EXCEPT !.destroys =
                                IF s.layers[h].destroys < 2
                                THEN s.layers[h].destroys + 1 ELSE 2],
              !.calls = Append(@, Call("destroy", h, 0))]

\* GlobeOrMap.showImageryLayer
showImageryLayer(s, h) ==
    [s EXCEPT !.layers[h].show = TRUE,
              !.calls = Append(@, Call("show", h, 0))]

\* GlobeOrMap.hideImageryLayer
hideImageryLayer(s, h) ==
    [s EXCEPT !.layers[h].show = FALSE,
              !.calls = Append(@, Call("hide", h, 0))]


\* --------------------------------------------- ImageryLayerCatalogItem statics
\* ImageryLayerCatalogItem.enableLayer: the handle returned is the result's n.
enableLayer(s, token, alpha, pick) == addImageryProvider(s, token, alpha, pick)

\* ImageryLayerCatalogItem.disableLayer
disableLayer(s, h) == IF h = None THEN s ELSE removeImageryLayer(s, h)

\* ImageryLayerCatalogItem.showLayer
showLayer(s, h) == IF h = None THEN s ELSE showImageryLayer(s, h)

\* ImageryLayerCatalogItem.hideLayer
hideLayer(s, h) == IF h = None THEN s ELSE hideImageryLayer(s, h)

\* setOpacity(catalogItem, layer, opacity): layer.alpha / layer.setOpacity
setOpacity(s, h, o) ==
    IF h = None THEN s
    ELSE [s EXCEPT !.layers[h].alpha = o,
                   !.calls = Append(@, Call("opacity", h, o))]

\* fixNextLayerOrder: moves _nextLayer next to _imageryLayer in the viewer's
\* layer order; it changes no field of either layer.
fixNextLayerOrder(s) ==
    IF s.imageryLayer = None \/ s.nextLayer = None THEN s
    ELSE [s EXCEPT !.calls = Append(@, Call("reorder", s.nextLayer, s.imageryLayer))]

\* The item is time-dynamic: intervals are defined and not empty.
IsTimeDynamic == intervals.def /\ NumIntervals > 0

\* --------------------------------------------------------- prototype methods
\* _enable with the prefetch index taken as index + 1 whatever the multiplier.
_enableAlwaysForward(s, t, m) ==
    IF s.imageryLayer # None THEN s
    ELSE
    LET index == IndexOf(intervals.ivs, t)
        nextIndex == IF index < 0 THEN Complement(index) ELSE index + 1
        hasNext == IsTimeDynamic /\ nextIndex >= 0 /\ nextIndex < NumIntervals
        hasCurrent == ~IsTimeDynamic \/ index >= 0
        s1 == IF IsTimeDynamic
              THEN [s EXCEPT !.cur = IF index < 0 THEN NoIntervalIndex ELSE index,
                             !.nxt = IF hasNext THEN nextIndex ELSE NoIntervalIndex]
              ELSE s
        s2 == IF hasCurrent
              THEN LET c == enableLayer(s1, IF IsTimeDynamic THEN DataAt(index) ELSE "static",
                                        opacity, TRUE)
                   IN [c EXCEPT !.imageryLayer = c.n]
              ELSE s1
        s3 == IF hasNext
              THEN LET c == enableLayer(s2, DataAt(nextIndex), 0, FALSE)
                   IN [c EXCEPT !.nextLayer = c.n]
              ELSE s2
    IN s3

\* _enable without the decrement of line 357: in a gap it prefetches the
\* interval after the time also when playing backwards.
_enableGapIgnoresDirection(s, t, m) ==
    IF s.imageryLayer # None THEN s
    ELSE
    LET index == IndexOf(intervals.ivs, t)
        nextIndex ==
            IF index < 0
            THEN Complement(index)
            ELSE IF m < 0 THEN index - 1 ELSE index + 1
        hasNext == IsTimeDynamic /\ nextIndex >= 0 /\ nextIndex < NumIntervals
        hasCurrent == ~IsTimeDynamic \/ index >= 0
        s1 == IF IsTimeDynamic
              THEN [s EXCEPT !.cur = IF index < 0 THEN NoIntervalIndex ELSE index,
                             !.nxt = IF hasNext THEN nextIndex ELSE NoIntervalIndex]
              ELSE s
        s2 == IF hasCurrent
              THEN LET c == enableLayer(s1, IF IsTimeDynamic THEN DataAt(index) ELSE "static",
                                        opacity, TRUE)
                   IN [c EXCEPT !.imageryLayer = c.n]
              ELSE s1
        s3 == IF hasNext
              THEN LET c == enableLayer(s2, DataAt(nextIndex), 0, FALSE)
                   IN [c EXCEPT !.nextLayer = c.n]
              ELSE s2
    IN s3

\* ImageryLayerCatalogItem.prototype._enable, with the clock at (t, m).
_enable(s, t, m) ==
    IF s.imageryLayer # None THEN s
    ELSE
    LET index == IndexOf(intervals.ivs, t)
        nextIndex ==
            IF index < 0
            THEN IF m < 0 THEN Complement(index) - 1 ELSE Complement(index)
            ELSE IF m < 0 THEN index - 1 ELSE index + 1
        hasNext == IsTimeDynamic /\ nextIndex >= 0 /\ nextIndex < NumIntervals
        hasCurrent == ~IsTimeDynamic \/ index >= 0
        s1 == IF IsTimeDynamic
              THEN [s EXCEPT !.cur = IF index < 0 THEN NoIntervalIndex ELSE index,
                             !.nxt = IF hasNext THEN nextIndex ELSE NoIntervalIndex]
              ELSE s
        s2 == IF hasCurrent
              THEN LET c == enableLayer(s1, IF IsTimeDynamic THEN DataAt(index) ELSE "static",
                                        opacity, TRUE)
                   IN [c EXCEPT !.imageryLayer = c.n]
              ELSE s1
        s3 == IF hasNext
              THEN LET c == enableLayer(s2, DataAt(nextIndex), 0, FALSE)
                   IN [c EXCEPT !.nextLayer = c.n]
              ELSE s2
    IN s3

\* ImageryLayerCatalogItem.prototype._disable
_disable(s) ==
    LET s1 == disableLayer(s, s.imageryLayer)
        s2 == [s1 EXCEPT !.imageryLayer = None]
        s3 == disableLayer(s2, s2.nextLayer)
    IN [s3 EXCEPT !.nextLayer = None]

\* ImageryLayerCatalogItem.prototype._show
_show(s) == showLayer(showLayer(s, s.imageryLayer), s.nextLayer)

\* _hide without the hideLayer of _nextLayer (line 408).
_hideCurrentOnly(s) == hideLayer(s, s.imageryLayer)

\* ImageryLayerCatalogItem.prototype._hide
_hide(s) == hideLayer(hideLayer(s, s.imageryLayer), s.nextLayer)

\* updateOpacity setting the opacity of _nextLayer as well.
updateOpacityAlsoNext(s, enabled, shown, o) ==
    IF s.imageryLayer # None /\ enabled /\ shown
    THEN setOpacity([s EXCEPT !.layers[s.imageryLayer].alpha = o,
                              !.calls = Append(@, Call("opacity", s.imageryLayer, o))],
                    s.nextLayer, o)
    ELSE s

\* updateOpacity(imageryLayerItem), the item's opacity being o
updateOpacity(s, enabled, shown, o) ==
    IF s.imageryLayer # None /\ enabled /\ shown
    THEN [s EXCEPT !.layers[s.imageryLayer].alpha = o,
                   !.calls = Append(@, Call("opacity", s.imageryLayer, o))]
    ELSE s

\* defined(catalogItem.clock): the getter builds the clock of a time-dynamic item.
ClockDefined == IsTimeDynamic

\* updateClockSubscription without the unsubscribe branch (lines 498-503).
updateClockSubscriptionNeverRemoves(sub, listeners, shown) ==
    IF shown /\ ClockDefined
    THEN IF ~sub
         THEN [sub |-> TRUE, listeners |-> listeners + 1]
         ELSE [sub |-> sub, listeners |-> listeners]
    ELSE [sub |-> sub, listeners |-> listeners]

\* updateClockSubscription subscribing whether or not the item has a clock.
updateClockSubscriptionNoClockTest(sub, listeners, shown) ==
    IF shown
    THEN IF ~sub
         THEN [sub |-> TRUE, listeners |-> listeners + 1]
         ELSE [sub |-> sub, listeners |-> listeners]
    ELSE IF sub
         THEN [sub |-> FALSE, listeners |-> listeners - 1]
         ELSE [sub |-> sub, listeners |-> listeners]

\* updateClockSubscription(catalogItem), isShown being shown
updateClockSubscription(sub, listeners, shown) ==
    IF shown /\ ClockDefined
    THEN IF ~sub
         THEN [sub |-> TRUE, listeners |-> listeners + 1]
         ELSE [sub |-> sub, listeners |-> listeners]
    ELSE IF sub
         THEN [sub |-> FALSE, listeners |-> listeners - 1]
         ELSE [sub |-> sub, listeners |-> listeners]


\* ------------------------------------------------------------------ onClockTick
\* Lines 533-537: create the layer of interval index as the "next" layer, shown.
CreateNextLayer(s, index) ==
    LET c == enableLayer(s, DataAt(index), 0, FALSE)
        c1 == [c EXCEPT !.nextLayer = c.n]
    IN showLayer(c1, c1.nextLayer)

\* Lines 526-538: throw the "next" layer away when it is not the layer of index.
ReplaceStaleNext(s, index) ==
    IF index # s.nxt
    THEN LET s1 == disableLayer(s, s.nextLayer)
             s2 == [s1 EXCEPT !.nextLayer = None, !.nxt = NoIntervalIndex]
         IN CreateNextLayer(s2, index)
    ELSE s

\* Promote without line 547: the promoted layer's picking stays disabled.
PromoteLeavesPickingOff(s, index, o) ==
    LET s1 == setOpacity(s, s.nextLayer, o)
        s2 == fixNextLayerOrder(s1)
        s3 == disableLayer(s2, s2.imageryLayer)
        s4 == [s3 EXCEPT !.imageryLayer = s3.nextLayer]
    IN IF s4.imageryLayer = None
       THEN [s4 EXCEPT !.threw = TRUE]
       ELSE [s4 EXCEPT !.nextLayer = None,
                       !.nxt = NoIntervalIndex,
                       !.cur = index]

\* Promote without lines 548-549: _nextLayer and _nextIntervalIndex keep the
\* promoted layer.
PromoteKeepsNext(s, index, o) ==
    LET s1 == setOpacity(s, s.nextLayer, o)
        s2 == fixNextLayerOrder(s1)
        s3 == disableLayer(s2, s2.imageryLayer)
        s4 == [s3 EXCEPT !.imageryLayer = s3.nextLayer]
    IN IF s4.imageryLayer = None
       THEN [s4 EXCEPT !.threw = TRUE]
       ELSE [s4 EXCEPT !.layers[s4.imageryLayer].pick = TRUE,
                       !.cur = index]

\* Promote without the disableLayer of the outgoing current layer (line 544).
PromoteKeepsOutgoing(s, index, o) ==
    LET s1 == setOpacity(s, s.nextLayer, o)
        s2 == fixNextLayerOrder(s1)
        s4 == [s2 EXCEPT !.imageryLayer = s2.nextLayer]
    IN IF s4.imageryLayer = None
       THEN [s4 EXCEPT !.threw = TRUE]
       ELSE [s4 EXCEPT !.layers[s4.imageryLayer].pick = TRUE,
                       !.nextLayer = None,
                       !.nxt = NoIntervalIndex,
                       !.cur = index]

\* Promote removing the outgoing current layer before it raises the next one.
PromoteDestroysFirst(s, index, o) ==
    LET s1 == disableLayer(s, s.imageryLayer)
        s2 == setOpacity(s1, s1.nextLayer, o)
        s3 == fixNextLayerOrder(s2)
        s4 == [s3 EXCEPT !.imageryLayer = s3.nextLayer]
    IN IF s4.imageryLayer = None
       THEN [s4 EXCEPT !.threw = TRUE]
       ELSE [s4 EXCEPT !.layers[s4.imageryLayer].pick = TRUE,
                       !.nextLayer = None,
                       !.nxt = NoIntervalIndex,
                       !.cur = index]

\* Lines 540-550: make _nextLayer the current layer.  Line 547 dereferences
\* _imageryLayer after the assignment of line 546 and throws when it is undefined.
Promote(s, index, o) ==
    LET s1 == setOpacity(s, s.nextLayer, o)
        s2 == fixNextLayerOrder(s1)
        s3 == disableLayer(s2, s2.imageryLayer)
        s4 == [s3 EXCEPT !.imageryLayer = s3.nextLayer]
    IN IF s4.imageryLayer = None
       THEN [s4 EXCEPT !.threw = TRUE]
       ELSE [s4 EXCEPT !.layers[s4.imageryLayer].pick = TRUE,
                       !.nextLayer = None,
                       !.nxt = NoIntervalIndex,
                       !.cur = index]

\* Prefetch without the test of nextIndex against _nextIntervalIndex (line 554).
PrefetchAgain(s, index, m) ==
    LET nextIndex == IF m >= 0 THEN index + 1 ELSE index - 1 IN
    IF nextIndex < 0 \/ nextIndex >= NumIntervals
    THEN s
    ELSE LET c == enableLayer(s, DataAt(nextIndex), 0, FALSE)
             c1 == [c EXCEPT !.nextLayer = c.n]
             c2 == showLayer(c1, c1.nextLayer)
         IN [c2 EXCEPT !.nxt = nextIndex]

\* Prefetch creating the layer at the default opacity instead of 0.0 (line 560).
PrefetchOpaque(s, index, m) ==
    LET nextIndex == IF m >= 0 THEN index + 1 ELSE index - 1 IN
    IF nextIndex < 0 \/ nextIndex >= NumIntervals \/ nextIndex = s.nxt
    THEN s
    ELSE LET c == enableLayer(s, DataAt(nextIndex), DefaultOpacity, FALSE)
             c1 == [c EXCEPT !.nextLayer = c.n]
             c2 == showLayer(c1, c1.nextLayer)
         IN [c2 EXCEPT !.nxt = nextIndex]

\* Prefetch that always predicts the following interval, whatever the
\* multiplier's sign.
PrefetchIgnoresDirection(s, index, m) ==
    LET nextIndex == index + 1 IN
    IF nextIndex < 0 \/ nextIndex >= NumIntervals \/ nextIndex = s.nxt
    THEN s
    ELSE LET c == enableLayer(s, DataAt(nextIndex), 0, FALSE)
             c1 == [c EXCEPT !.nextLayer = c.n]
             c2 == showLayer(c1, c1.nextLayer)
         IN [c2 EXCEPT !.nxt = nextIndex]

\* Prefetch testing multiplier > 0 instead of >= 0.
PrefetchStrictSign(s, index, m) ==
    LET nextIndex == IF m > 0 THEN index + 1 ELSE index - 1 IN
    IF nextIndex < 0 \/ nextIndex >= NumIntervals \/ nextIndex = s.nxt
    THEN s
    ELSE LET c == enableLayer(s, DataAt(nextIndex), 0, FALSE)
             c1 == [c EXCEPT !.nextLayer = c.n]
             c2 == showLayer(c1, c1.nextLayer)
         IN [c2 EXCEPT !.nxt = nextIndex]

\* Lines 553-563: prefetch the layer of the interval predicted from the
\* multiplier's sign.  _nextLayer is assigned without a disableLayer of the
\* layer it held.
Prefetch(s, index, m) ==
    LET nextIndex == IF m >= 0 THEN index + 1 ELSE index - 1 IN
    IF nextIndex < 0 \/ nextIndex >= NumIntervals \/ nextIndex = s.nxt
    THEN s
    ELSE LET c == enableLayer(s, DataAt(nextIndex), 0, FALSE)
             c1 == [c EXCEPT !.nextLayer = c.n]
             c2 == showLayer(c1, c1.nextLayer)
         IN [c2 EXCEPT !.nxt = nextIndex]

\* ChangeInterval without the assignment of line 521: outside every interval
\* the removed layer stays in _imageryLayer.
ChangeIntervalKeepsHandle(s, t, m, o) ==
    LET index == IndexOf(intervals.ivs, t) IN
    IF index < 0
    THEN LET s1 == disableLayer(s, s.imageryLayer)
         IN [s1 EXCEPT !.cur = NoIntervalIndex]
    ELSE LET p == Promote(ReplaceStaleNext(s, index), index, o)
         IN IF p.threw THEN p ELSE Prefetch(p, index, m)

\* ChangeInterval without the disableLayer of line 520: outside every interval
\* the current layer is forgotten but stays in the viewer.
ChangeIntervalLeavesLayer(s, t, m, o) ==
    LET index == IndexOf(intervals.ivs, t) IN
    IF index < 0
    THEN [s EXCEPT !.imageryLayer = None, !.cur = NoIntervalIndex]
    ELSE LET p == Promote(ReplaceStaleNext(s, index), index, o)
         IN IF p.threw THEN p ELSE Prefetch(p, index, m)

\* Lines 515-551: the current interval no longer contains t.
ChangeInterval(s, t, m, o) ==
    LET index == IndexOf(intervals.ivs, t) IN
    IF index < 0
    THEN LET s1 == disableLayer(s, s.imageryLayer)
         IN [s1 EXCEPT !.imageryLayer = None, !.cur = NoIntervalIndex]
    ELSE LET p == Promote(ReplaceStaleNext(s, index), index, o)
         IN IF p.threw THEN p ELSE Prefetch(p, index, m)

\* onClockTick(catalogItem, clock), the clock at (t, m) and the item's flags
\* and opacity as given.
onClockTick(s, t, m, enabled, shown, o) ==
    IF ~intervals.def \/ ~enabled \/ ~shown
    THEN s
    ELSE LET index == s.cur IN
         IF \/ index < 0
            \/ index >= NumIntervals
            \/ ~Contains(intervals.ivs[index + 1], t)
         THEN ChangeInterval(s, t, m, o)
         ELSE Prefetch(s, index, m)

\* terria.clock.onTick raises the event once for each registered listener.
RECURSIVE RaiseOnTick(_, _, _, _, _, _, _)
RaiseOnTick(k, s, t, m, enabled, shown, o) ==
    IF k = 0 \/ s.threw THEN s
    ELSE RaiseOnTick(k - 1, onClockTick(s, t, m, enabled, shown, o), t, m, enabled, shown, o)

\* ----------------------------------------------------------------- state
\* The handler's working state at the start of a handler.
Begin ==
    [imageryLayer |-> imageryLayer, nextLayer |-> nextLayer,
     cur |-> currentIntervalIndex, nxt |-> nextIntervalIndex,
     layers |-> layers, n |-> numCreated, calls |-> << >>, threw |-> FALSE,
     failed |-> failedToken]

\* The handler's result becomes the item's and the viewer's state.
Commit(s, op) ==
    /\ imageryLayer' = s.imageryLayer
    /\ nextLayer' = s.nextLayer
    /\ currentIntervalIndex' = s.cur
    /\ nextIntervalIndex' = s.nxt
    /\ layers' = s.layers
    /\ numCreated' = s.n
    /\ calls' = s.calls
    /\ threw' = s.threw
    /\ failedToken' = s.failed
    /\ lastOp' = op
    /\ UNCHANGED << initialTimeSource, _clock, now, lastError, supportsIntervals, json >>
    /\ UNCHANGED viewVars

\* ------------------------------------------------------- the item's clock
\* A value of catalogItem.initialTimeSource: undefined, a word, or an ISO8601
\* timestamp (of the instant time).
Undefined == [kind |-> "undefined", word |-> "", time |-> 0]

Word(w) == [kind |-> "word", word |-> w, time |-> 0]

Iso8601(t) == [kind |-> "iso8601", word |-> "", time |-> t]

\* "yesterday" is neither one of the three options nor a timestamp.
Words == {"present", "start", "end", "yesterday"}

InitialTimeSources ==
    {Undefined} \cup {Word(w) : w \in Words} \cup {Iso8601(t) : t \in Times}

\* catalogItem._clock is undefined.
NoClock == [installed |-> FALSE, startTime |-> 0, stopTime |-> 0, currentTime |-> 0]

NoError == [raised |-> FALSE, message |-> "", value |-> Undefined]

\* JulianDate.fromIso8601: the instant of a timestamp; anything else throws.
fromIso8601(source) ==
    IF source.kind = "iso8601"
    THEN [threw |-> FALSE, time |-> source.time]
    ELSE [threw |-> TRUE, time |-> 0]

\* _setTimeIfInRange without the greaterThan branch (lines 639-641).
_setTimeIfInRangeNoStopTest(clock, timeToSet) ==
    IF timeToSet < clock.startTime
    THEN [clock EXCEPT !.currentTime = clock.startTime]
    ELSE [clock EXCEPT !.currentTime = timeToSet]

\* _setTimeIfInRange(catalogItem, timeToSet), on the item's _clock
_setTimeIfInRange(clock, timeToSet) ==
    IF timeToSet < clock.startTime
    THEN [clock EXCEPT !.currentTime = clock.startTime]
    ELSE IF timeToSet > clock.stopTime
         THEN [clock EXCEPT !.currentTime = clock.stopTime]
         ELSE [clock EXCEPT !.currentTime = timeToSet]

\* _setClockCurrentTime whose catch block swallows the parse failure.
_setClockCurrentTimeSwallows(clock, source, nowTime) ==
    LET c0 == _setTimeIfInRange(clock, nowTime)
        src == IF source.kind = "undefined" THEN Word("present") ELSE source
        ok(c) == [clock |-> c, threw |-> FALSE, error |-> NoError]
    IN IF src = Word("start") THEN ok([c0 EXCEPT !.currentTime = c0.startTime])
       ELSE IF src = Word("end") THEN ok([c0 EXCEPT !.currentTime = c0.stopTime])
       ELSE IF src = Word("present") THEN ok(c0)
       ELSE LET timestamp == fromIso8601(src) IN
            IF timestamp.threw
            THEN ok(c0)
            ELSE ok(_setTimeIfInRange(c0, timestamp.time))

\* _setClockCurrentTime(catalogItem), JulianDate.now() being nowTime: the
\* clock it leaves, and the TerriaError it throws.
_setClockCurrentTime(clock, source, nowTime) ==
    LET c0 == _setTimeIfInRange(clock, nowTime)
        src == IF source.kind = "undefined" THEN Word("present") ELSE source
        ok(c) == [clock |-> c, threw |-> FALSE, error |-> NoError]
    IN IF src = Word("start") THEN ok([c0 EXCEPT !.currentTime = c0.startTime])
       ELSE IF src = Word("end") THEN ok([c0 EXCEPT !.currentTime = c0.stopTime])
       ELSE IF src = Word("present") THEN ok(c0)
       ELSE LET timestamp == fromIso8601(src) IN
            IF timestamp.threw
            THEN [clock |-> c0, threw |-> TRUE,
                  error |-> [raised |-> TRUE,
                             message |-> "No good initialTimeSource specified in config file: ",
                             value |-> src]]
            ELSE ok(_setTimeIfInRange(c0, timestamp.time))

\* The getter of catalogItem.clock (lines 124-144): _clock is assigned the new
\* DataSourceClock before _setClockCurrentTime runs.
clockGetter(clock, source, nowTime) ==
    IF ~clock.installed /\ intervals.def /\ NumIntervals > 0
    THEN LET c == [installed |-> TRUE,
                   startTime |-> intervals.ivs[1].start,
                   stopTime |-> intervals.ivs[NumIntervals].stop,
                   currentTime |-> 0]
         IN _setClockCurrentTime(c, source, nowTime)
    ELSE [clock |-> clock, threw |-> FALSE, error |-> NoError]

\* json.intervals is undefined.
NoJson == [def |-> FALSE, entries |-> << >>]

\* The item's layers and flags after the constructor (lines 31-162), the item
\* not yet enabled.
ItemInit ==
    /\ clockTime \in Times
    /\ multiplier \in Multipliers
    /\ isEnabled = FALSE
    /\ isShown = FALSE
    /\ opacity = DefaultOpacity
    /\ imageryLayer = None
    /\ nextLayer = None
    /\ currentIntervalIndex = NoIntervalIndex
    /\ nextIntervalIndex = UndefinedIndex
    /\ clockTickSubscription = FALSE
    /\ onTickListeners = 0
    /\ layers = [h \in Handles |-> NoLayer]
    /\ numCreated = 0
    /\ calls = << >>
    /\ threw = FALSE
    /\ failedToken = "none"
    /\ lastOp = "init"

\* The state after the constructor and the load of the item's intervals, no
\* initialTimeSource configured.
Init ==
    /\ ItemInit
    /\ intervals \in Configurations
    /\ initialTimeSource = Undefined
    /\ _clock = NoClock
    /\ now = 0
    /\ lastError = NoError
    /\ supportsIntervals = TRUE
    /\ json = NoJson
    /\ ViewInit

\* A handler creates at most two layers.
Room == numCreated + 2 <= MaxLayers

Subscribe(shown) ==
    LET u == updateClockSubscription(clockTickSubscription, onTickListeners, shown) IN
    /\ clockTickSubscription' = u.sub
    /\ onTickListeners' = u.listeners

\* --------------------------------------------------------------- operations
\* The item is enabled: CatalogItem runs _enable, then sets isShown, whose
\* subscribers run _show and updateClockSubscription.
Enable ==
    /\ ~isEnabled
    /\ Room
    /\ isEnabled' = TRUE
    /\ isShown' = TRUE
    /\ Commit(_show(_enable(Begin, clockTime, multiplier)), "enable")
    /\ Subscribe(TRUE)
    /\ UNCHANGED << intervals, clockTime, multiplier, opacity >>

\* The item is disabled: CatalogItem clears isShown (_hide, unsubscribe), then
\* runs _disable.
Disable ==
    /\ isEnabled
    /\ isEnabled' = FALSE
    /\ isShown' = FALSE
    /\ Commit(_disable(IF isShown THEN _hide(Begin) ELSE Begin), "disable")
    /\ Subscribe(FALSE)
    /\ UNCHANGED << intervals, clockTime, multiplier, opacity >>

\* isShown becomes true on an enabled item.
Show ==
    /\ isEnabled /\ ~isShown
    /\ isShown' = TRUE
    /\ Commit(_show(Begin), "show")
    /\ Subscribe(TRUE)
    /\ UNCHANGED << intervals, clockTime, multiplier, opacity, isEnabled >>

\* isShown becomes false on an enabled item.
Hide ==
    /\ isEnabled /\ isShown
    /\ isShown' = FALSE
    /\ Commit(_hide(Begin), "hide")
    /\ Subscribe(FALSE)
    /\ UNCHANGED << intervals, clockTime, multiplier, opacity, isEnabled >>

\* The opacity observable changes (lines 150-152).
SetOpacity ==
    \E o \in Opacities \ {opacity} :
        /\ opacity' = o
        /\ Commit(updateOpacity(Begin, isEnabled, isShown, o), "opacity")
        /\ UNCHANGED << intervals, clockTime, multiplier, isEnabled, isShown,
                        clockTickSubscription, onTickListeners >>

\* terria.clock ticks at time t with multiplier m.
ClockTick ==
    \E t \in Times, m \in Multipliers :
        /\ Room
        /\ clockTime' = t
        /\ multiplier' = m
        /\ Commit(RaiseOnTick(onTickListeners, Begin, t, m, isEnabled, isShown, opacity),
                  "tick")
        /\ UNCHANGED << intervals, isEnabled, isShown, opacity,
                        clockTickSubscription, onTickListeners >>

Next == Enable \/ Disable \/ Show \/ Hide \/ SetOpacity \/ ClockTick

Spec == Init /\ [][Next]_vars

\* -------------------------------------------------- onClockTick called directly
\* onClockTick(catalogItem, clock) runs with the clock at (t, m) although the
\* item has no listener on terria.clock.onTick: its guard (lines 509-511) is
\* all that stands between the tick and the item's layers.
DeliverTick ==
    \E t \in Times, m \in Multipliers :
        /\ onTickListeners = 0
        /\ Room
        /\ clockTime' = t
        /\ multiplier' = m
        /\ Commit(onClockTick(Begin, t, m, isEnabled, isShown, opacity), "deliver")
        /\ UNCHANGED << intervals, isEnabled, isShown, opacity,
                        clockTickSubscription, onTickListeners >>

NextHandler == Next \/ DeliverTick

SpecHandler == Init /\ [][NextHandler]_vars

\* ------------------------------------------------- a tick inside a tick
\* onClockTick has no "tick in progress" latch.  These are lines 507-564 with
\* terria.clock.onTick raised once more, at the same (t, m), from inside the
\* addImageryProvider call of a layer creation: the nested onClockTick runs on
\* the item as it stands before the assignment to _nextLayer.
CreateNextLayerNested(s, index, t, m, enabled, shown, o) ==
    LET c == enableLayer(s, DataAt(index), 0, FALSE)
        r == onClockTick(c, t, m, enabled, shown, o)
        c1 == [r EXCEPT !.nextLayer = c.n]
    IN IF r.threw THEN r ELSE showLayer(c1, c1.nextLayer)

\* Lines 526-538, the nested tick raised at line 536.
ReplaceStaleNextNested(s, index, t, m, enabled, shown, o) ==
    IF index # s.nxt
    THEN LET s1 == disableLayer(s, s.nextLayer)
             s2 == [s1 EXCEPT !.nextLayer = None, !.nxt = NoIntervalIndex]
         IN CreateNextLayerNested(s2, index, t, m, enabled, shown, o)
    ELSE s

\* Lines 553-563, the nested tick raised at line 560.
PrefetchNested(s, index, t, m, enabled, shown, o) ==
    LET nextIndex == IF m >= 0 THEN index + 1 ELSE index - 1 IN
    IF nextIndex < 0 \/ nextIndex >= NumIntervals \/ nextIndex = s.nxt
    THEN s
    ELSE LET c == CreateNextLayerNested(s, nextIndex, t, m, enabled, shown, o)
         IN IF c.threw THEN c ELSE [c EXCEPT !.nxt = nextIndex]

\* onClockTick with the nested tick raised at the creation of line 536
\* (site "stale") or of line 560 (site "prefetch").
onClockTickNested(s, t, m, enabled, shown, o, site) ==
    IF ~intervals.def \/ ~enabled \/ ~shown
    THEN s
    ELSE LET cur == s.cur IN
         IF \/ cur < 0
            \/ cur >= NumIntervals
            \/ ~Contains(intervals.ivs[cur + 1], t)
         THEN LET index == IndexOf(intervals.ivs, t) IN
              IF index < 0
              THEN LET s1 == disableLayer(s, s.imageryLayer)
                   IN [s1 EXCEPT !.imageryLayer = None, !.cur = NoIntervalIndex]
              ELSE LET r == IF site = "stale"
                            THEN ReplaceStaleNextNested(s, index, t, m, enabled, shown, o)
                            ELSE ReplaceStaleNext(s, index)
                       p == IF r.threw THEN r ELSE Promote(r, index, o)
                   IN IF p.threw THEN p
                      ELSE IF site = "prefetch"
                           THEN PrefetchNested(p, index, t, m, enabled, shown, o)
                           ELSE Prefetch(p, index, m)
         ELSE IF site = "prefetch"
              THEN PrefetchNested(s, cur, t, m, enabled, shown, o)
              ELSE Prefetch(s, cur, m)

\* terria.clock ticks at (t, m) and ticks again while the item's handler runs.
NestedTick ==
    \E t \in Times, m \in Multipliers, site \in {"stale", "prefetch"} :
        LET r == onClockTickNested(Begin, t, m, isEnabled, isShown, opacity, site) IN
        /\ onTickListeners = 1
        /\ numCreated + 4 <= MaxLayers
        /\ clockTime' = t
        /\ multiplier' = m
        /\ Commit(r, "nestedTick")
        /\ UNCHANGED << intervals, isEnabled, isShown, opacity,
                        clockTickSubscription, onTickListeners >>

NextNested == Next \/ NestedTick

SpecNested == Init /\ [][NextNested]_vars

\* ------------------------------------------------- reading catalogItem.clock
\* The item after the constructor and the load of its intervals, with any
\* initialTimeSource.
InitClock ==
    /\ ItemInit
    /\ intervals \in Configurations
    /\ initialTimeSource \in InitialTimeSources
    /\ _clock = NoClock
    /\ now = 0
    /\ lastError = NoError
    /\ supportsIntervals = TRUE
    /\ json = NoJson
    /\ ViewInit

\* catalogItem.clock is read while JulianDate.now() is n.
ReadClock ==
    \E n \in Times :
        LET g == clockGetter(_clock, initialTimeSource, n) IN
        /\ _clock' = g.clock
        /\ threw' = g.threw
        /\ lastError' = g.error
        /\ now' = IF ~_clock.installed /\ IsTimeDynamic THEN n ELSE now
        /\ lastOp' = "readClock"
        /\ UNCHANGED << intervals, clockTime, multiplier, isEnabled, isShown, opacity,
                        imageryLayer, nextLayer, currentIntervalIndex,
                        nextIntervalIndex, clockTickSubscription, onTickListeners,
                        layers, numCreated, calls, failedToken, initialTimeSource,
                        supportsIntervals, json >>
        /\ UNCHANGED viewVars

NextClock == ReadClock

SpecClock == InitClock /\ [][NextClock]_vars

\* ------------------------------------------------ defaultUpdaters.intervals
\* An element of json.intervals: its "interval" string reads start/stop, or
\* cannot be parsed.
JsonEntry(a, b, ok, d) == [start |-> a, stop |-> b, parsable |-> ok, data |-> d]

\* TimeInterval.fromIso8601: a closed interval; an unparsable string throws.
\* There is no test of start against stop.
TimeIntervalFromIso8601(e) ==
    IF e.parsable
    THEN [threw |-> FALSE, interval |-> Interval(e.start, e.stop, TRUE, TRUE, e.data)]
    ELSE [threw |-> TRUE, interval |-> Interval(0, 0, TRUE, TRUE, "none")]

\* TimeInterval.isEmpty
isEmpty(iv) ==
    \/ iv.stop < iv.start
    \/ iv.stop = iv.start /\ ~(iv.isStartIncluded /\ iv.isStopIncluded)

\* TimeIntervalCollection.addInterval of an interval that starts at or after
\* the stop of the last one: an empty interval is ignored; a shared instant
\* goes to the interval added.
addInterval(ivs, iv) ==
    IF isEmpty(iv) THEN ivs
    ELSE IF ivs # << >> /\ ivs[Len(ivs)].stop = iv.start
         THEN Append([ivs EXCEPT ![Len(ivs)].isStopIncluded = FALSE], iv)
         ELSE Append(ivs, iv)

\* The loop of lines 269-277 over entries, from the collection result.
RECURSIVE AddEntries(_, _)
AddEntries(result, entries) ==
    IF entries = << >> THEN [threw |-> FALSE, ivs |-> result]
    ELSE LET parsed == TimeIntervalFromIso8601(Head(entries)) IN
         IF parsed.threw THEN [threw |-> TRUE, ivs |-> result]
         ELSE AddEntries(addInterval(result, parsed.interval), Tail(entries))

\* ImageryLayerCatalogItem.defaultUpdaters.intervals(catalogItem, json): the
\* value of catalogItem.intervals afterwards, and whether it threw.
updateIntervals(old, supported, j) ==
    IF ~j.def THEN [intervals |-> old, threw |-> FALSE]
    ELSE IF ~supported THEN [intervals |-> old, threw |-> TRUE]
    ELSE LET r == AddEntries(<< >>, j.entries) IN
         IF r.threw
         THEN [intervals |-> old, threw |-> TRUE]
         ELSE [intervals |-> [def |-> TRUE, ivs |-> r.ivs], threw |-> FALSE]

\* Entries: two good ones in ascending order, one that cannot be parsed, one
\* whose start is after its stop.
GoodEntries == << JsonEntry(1, 2, TRUE, "a"), JsonEntry(2, 3, TRUE, "b") >>

BadEntries == {JsonEntry(0, 0, FALSE, "x"), JsonEntry(3, 1, TRUE, "x")}

\* The json.intervals arrays: a prefix of the good entries with at most one
\* bad entry put in.
Jsons ==
    {NoJson} \cup
    {[def |-> TRUE, entries |-> SubSeq(GoodEntries, 1, k)] : k \in 0..Len(GoodEntries)} \cup
    {[def |-> TRUE,
      entries |-> SubSeq(GoodEntries, 1, k) \o << b >> \o SubSeq(GoodEntries, k + 1, n)] :
        << k, n, b >> \in {x \in (0..Len(GoodEntries)) \X (0..Len(GoodEntries)) \X BadEntries :
                              x[1] <= x[2]}}

\* The item before its intervals are loaded from the init file.
InitLoad ==
    /\ ItemInit
    /\ intervals \in {NoIntervals, Contiguous}
    /\ initialTimeSource = Undefined
    /\ _clock = NoClock
    /\ now = 0
    /\ lastError = NoError
    /\ supportsIntervals \in BOOLEAN
    /\ json = NoJson
    /\ ViewInit

\* updateFromJson runs the intervals updater on json j.
UpdateIntervals ==
    \E j \in Jsons :
        LET u == updateIntervals(intervals, supportsIntervals, j) IN
        /\ json' = j
        /\ intervals' = u.intervals
        /\ threw' = u.threw
        /\ lastOp' = "update"
        /\ UNCHANGED << clockTime, multiplier, isEnabled, isShown, opacity,
                        imageryLayer, nextLayer, currentIntervalIndex,
                        nextIntervalIndex, clockTickSubscription, onTickListeners,
                        layers, numCreated, calls, failedToken, initialTimeSource,
                        _clock, now, lastError, supportsIntervals >>
        /\ UNCHANGED viewVars

NextLoad == UpdateIntervals

SpecLoad == InitLoad /\ [][NextLoad]_vars

\* ------------------------------------------------------------------ typing
TypeOK ==
    /\ imageryLayer \in 0..MaxLayers
    /\ nextLayer \in 0..MaxLayers
    /\ numCreated \in 0..MaxLayers
    /\ currentIntervalIndex \in -1..2
    /\ nextIntervalIndex \in -2..2
    /\ onTickListeners \in 0..1


\* ------------------------------------------------------------ derived state
Created == 1..numCreated

\* Layers added to the viewer and not removed from it.
LiveLayers == {h \in Created : layers[h].destroys = 0}

\* ------------------------------------------------ renderer error callbacks
\* terria.error.raiseEvent: the notification raised for layer h is logged.
raiseErrorEvent(s, h) == [s EXCEPT !.calls = Append(@, Call("notify", h, 0))]

\* globeOrMap.hideImageryProvider(layer), lines 461 and 474.  GlobeOrMap
\* declares addImageryProvider, removeImageryLayer, showImageryLayer and
\* hideImageryLayer, and no hideImageryProvider: the call throws a TypeError
\* and the layer stays as it is.
hideImageryProvider(s, h) == [s EXCEPT !.threw = TRUE]

\* The onLoadError callback enableLayer hands to addImageryProvider for layer h.
onLoadError(s, h) ==
    IF s.layers[h].show
    THEN hideImageryProvider(raiseErrorEvent(s, h), h)
    ELSE s

\* The onProjectionError callback enableLayer hands to addImageryProvider for
\* layer h.
onProjectionError(s, h) == hideImageryProvider(raiseErrorEvent(s, h), h)

\* The viewer reports a tile load error of layer h.
LoadError ==
    \E h \in LiveLayers :
        /\ Commit([onLoadError(Begin, h) EXCEPT !.failed = layers[h].token], "loadError")
        /\ UNCHANGED << intervals, clockTime, multiplier, isEnabled, isShown, opacity,
                        clockTickSubscription, onTickListeners >>

\* The viewer reports that layer h cannot be projected.
ProjectionError ==
    \E h \in LiveLayers :
        /\ Commit([onProjectionError(Begin, h) EXCEPT !.failed = layers[h].token],
                  "projectionError")
        /\ UNCHANGED << intervals, clockTime, multiplier, isEnabled, isShown, opacity,
                        clockTickSubscription, onTickListeners >>

NextErrors == Next \/ LoadError \/ ProjectionError

SpecErrors == Init /\ [][NextErrors]_vars

\* removeImageryLayer calls so far, over all handles.
RECURSIVE SumDestroys(_)
SumDestroys(k) == IF k = 0 THEN 0 ELSE layers[k].destroys + SumDestroys(k - 1)

DestroyCalls == SumDestroys(numCreated)

\* The interval collection has an interval containing the clock's time.
ClockInInterval == IsTimeDynamic /\ IndexOf(intervals.ivs, clockTime) >= 0

\* The viewer calls of the last handler with operation op.
CallsOf(op) == {i \in 1..Len(calls) : calls[i].op = op}

\* ------------------------------------------------------------------ claims
\* C1: whenever the controller is back in Disabled, the number of layers
\* destroyed (removeImageryLayer calls) equals the number of layers created
\* (addImageryProvider calls).
C1_DestroysEqualCreatesWhenDisabled ==
    ~isEnabled => DestroyCalls = numCreated

\* C2: no layer handle created by the controller is passed to
\* removeImageryLayer more than once.
C2_NoDoubleDestroy ==
    \A h \in Created : layers[h].destroys <= 1

\* C2 witness: a tick has promoted the next layer and destroyed the outgoing
\* current layer, and later the item was disabled, destroying the rest.
C2_Witness ==
    /\ lastOp = "disable"
    /\ Cardinality(CallsOf("destroy")) = 2
    /\ numCreated >= 3
    /\ \E h \in Created : layers[h].destroys = 1 /\ \A i \in CallsOf("destroy") : calls[i].h # h


\* The index of the interval containing the clock's time (negative if none).
ClockIndex == IndexOf(intervals.ivs, clockTime)

\* The interval the prefetch predicts from interval k and the clock's multiplier.
Predicted(k) == IF multiplier >= 0 THEN k + 1 ELSE k - 1

InBounds(k) == k >= 0 /\ k < NumIntervals

\* The last handler was a tick delivered to the item's onClockTick while the
\* item was enabled and shown.
TickDelivered == lastOp = "tick" /\ isEnabled /\ isShown /\ onTickListeners > 0

\* Handle h was returned by an addImageryProvider call of the last handler.
CreatedByLastHandler(h) == \E i \in CallsOf("create") : calls[i].h = h

\* C3: after a tick at a time inside interval k, delivered while the item is
\* enabled and shown, current is the layer of interval k's token,
\* currentIntervalIdx = k, and current is at the item's configured opacity.
C3_TickLandsOnContainingInterval ==
    (TickDelivered /\ ClockInInterval) =>
        /\ imageryLayer \in LiveLayers
        /\ layers[imageryLayer].token = DataAt(ClockIndex)
        /\ currentIntervalIndex = ClockIndex
        /\ layers[imageryLayer].alpha = opacity

\* C4: after a tick that lands on interval idx, the next layer, if created by
\* that tick, is the layer of interval idx+1 (multiplier >= 0) or idx-1
\* (multiplier < 0); the tick creates no next layer when that index is out of
\* bounds.
C4_PrefetchIsPredictedInterval ==
    (TickDelivered /\ ClockInInterval) =>
        /\ (nextLayer # None /\ CreatedByLastHandler(nextLayer)) =>
              /\ InBounds(Predicted(ClockIndex))
              /\ nextIntervalIndex = Predicted(ClockIndex)
              /\ nextLayer \in LiveLayers
              /\ layers[nextLayer].token = DataAt(Predicted(ClockIndex))
        /\ ~InBounds(Predicted(ClockIndex)) =>
              ~(nextLayer # None /\ CreatedByLastHandler(nextLayer))

\* C4 witness: a tick landed on an interval, promoted a layer and created the
\* prefetch for the predicted interval, playing backwards.
C4_Witness ==
    /\ TickDelivered /\ ClockInInterval
    /\ multiplier < 0
    /\ nextLayer # None /\ CreatedByLastHandler(nextLayer)
    /\ Cardinality(CallsOf("destroy")) >= 1
    /\ nextIntervalIndex = ClockIndex - 1


\* ------------------------------------------------- the viewer inside a handler
\* What the viewer displays of each handle: whether it is in the viewer, and
\* its opacity.
LayerView(ls, n) ==
    [h \in Handles |-> [live |-> h <= n /\ ls[h].destroys = 0, alpha |-> ls[h].alpha]]

\* The effect of one viewer call on it.
ApplyCall(v, c) ==
    CASE c.op = "create" -> [v EXCEPT ![c.h] = [live |-> TRUE, alpha |-> c.v]]
      [] c.op = "destroy" -> [v EXCEPT ![c.h].live = FALSE]
      [] c.op = "opacity" -> [v EXCEPT ![c.h].alpha = c.v]
      [] OTHER -> v

\* The viewer after the first i calls of cs, starting from v.
RECURSIVE ViewAfter(_, _, _)
ViewAfter(v, cs, i) == IF i = 0 THEN v ELSE ApplyCall(ViewAfter(v, cs, i - 1), cs[i])

\* The position in cs of the call op on handle h; 0 when there is none.
Pos(cs, op, h) ==
    IF \E i \in 1..Len(cs) : cs[i].op = op /\ cs[i].h = h
    THEN CHOOSE i \in 1..Len(cs) : cs[i].op = op /\ cs[i].h = h
    ELSE 0

\* Where both calls were made, the one at position a precedes the one at b.
Precedes(a, b) == a = 0 \/ b = 0 \/ a < b

\* C5 (as claimed): at no point during a promote step are the outgoing
\* current layer and the promoted layer both in the viewer at the item's full
\* opacity.
C5_NeverBothAtFullOpacity ==
    [][(lastOp' = "tick" /\ imageryLayer # None /\ imageryLayer' # None
          /\ imageryLayer' # imageryLayer /\ opacity > 0) =>
        \A i \in 0..Len(calls') :
            LET v == ViewAfter(LayerView(layers, numCreated), calls', i) IN
            ~ /\ v[imageryLayer].live /\ v[imageryLayer].alpha = opacity
              /\ v[imageryLayer'].live /\ v[imageryLayer'].alpha = opacity]_vars

\* C5 (amended): the promoted layer is raised to the item's opacity before the
\* outgoing current layer is removed, and the outgoing layer is removed before
\* the handler returns: in every state between callbacks at most one layer of
\* the item is in the viewer at non-zero opacity.
C5_AtMostOneOpaqueBetweenCallbacks ==
    Cardinality({h \in LiveLayers : layers[h].alpha > 0}) <= 1

\* C5 witness: a tick raised the promoted layer to a non-zero opacity and then
\* removed the outgoing current layer, which the promoted layer has replaced.
C5_Witness ==
    /\ TickDelivered
    /\ imageryLayer # None
    /\ Pos(calls, "opacity", imageryLayer) > 0
    /\ layers[imageryLayer].alpha > 0
    /\ \E i \in CallsOf("destroy") :
          /\ i > Pos(calls, "opacity", imageryLayer)
          /\ \E j \in CallsOf("reorder") : calls[j].v = calls[i].h

\* C6: in a tick that changes interval the viewer calls are made in the order:
\* removal of the stale next layer, creation of the layer of the landed
\* interval, promotion (opacity raised, order fixed, outgoing current removed),
\* creation of the prefetch layer.
C6_TickStepOrder ==
    [][(lastOp' = "tick" /\ imageryLayer' # None /\ imageryLayer' # imageryLayer) =>
        LET cs == calls'
            promoted == imageryLayer'
            staleDestroy == IF nextLayer # None /\ nextLayer # promoted
                            THEN Pos(cs, "destroy", nextLayer) ELSE 0
            landedCreate == Pos(cs, "create", promoted)
            raise == Pos(cs, "opacity", promoted)
            reorder == Pos(cs, "reorder", promoted)
            outgoingDestroy == IF imageryLayer # None
                               THEN Pos(cs, "destroy", imageryLayer) ELSE 0
            prefetchCreate == IF nextLayer' # None
                              THEN Pos(cs, "create", nextLayer') ELSE 0
            steps == << staleDestroy, landedCreate, raise, reorder,
                        outgoingDestroy, prefetchCreate >>
        IN /\ \A a, b \in 1..Len(steps) : a < b => Precedes(steps[a], steps[b])
           /\ raise > 0
           /\ (imageryLayer # None) => (reorder > 0 /\ outgoingDestroy > 0)
           /\ (nextLayer # None /\ nextLayer # promoted) =>
                 (staleDestroy > 0 /\ landedCreate > 0)
           /\ Cardinality({i \in 1..Len(cs) : cs[i].op = "create"})
                 = (IF landedCreate > 0 THEN 1 ELSE 0) + (IF prefetchCreate > 0 THEN 1 ELSE 0)
           /\ Cardinality({i \in 1..Len(cs) : cs[i].op = "destroy"})
                 = (IF staleDestroy > 0 THEN 1 ELSE 0) + (IF outgoingDestroy > 0 THEN 1 ELSE 0)
      ]_vars

\* C6 witness: one tick made all four steps: it removed a stale next layer,
\* created and promoted the layer of the landed interval, removed the outgoing
\* current layer and created a prefetch layer.
C6_Witness ==
    /\ TickDelivered
    /\ Cardinality(CallsOf("create")) = 2
    /\ Cardinality(CallsOf("destroy")) = 2
    /\ CallsOf("reorder") # {}
    /\ nextLayer # None /\ imageryLayer # None

\* C7: after a tick at a time inside no interval, delivered while the item is
\* enabled and shown, the previous current layer has been removed, current is
\* unset with currentIntervalIdx = -1, no layer of the item is in the viewer at
\* non-zero opacity, the tick has created no layer and has raised no error.
C7_TickInGap ==
    [][(lastOp' = "tick" /\ isEnabled /\ isShown /\ onTickListeners > 0
          /\ IsTimeDynamic /\ IndexOf(intervals.ivs, clockTime') < 0) =>
        /\ imageryLayer # None => layers'[imageryLayer].destroys = 1
        /\ imageryLayer' = None
        /\ currentIntervalIndex' = NoIntervalIndex
        /\ \A h \in 1..numCreated' : layers'[h].destroys = 0 => layers'[h].alpha = 0
        /\ numCreated' = numCreated
        /\ \A i \in 1..Len(calls') : calls'[i].op # "create"
        /\ ~threw'
      ]_vars

\* C7 witness: a tick at a time inside no interval removed the current layer.
C7_Witness ==
    /\ TickDelivered /\ IsTimeDynamic /\ ~ClockInInterval
    /\ Cardinality(CallsOf("destroy")) = 1
    /\ imageryLayer = None
    /\ nextLayer # None


\* The interval an enable in a gap should prefetch: the first interval that
\* starts after t when playing forwards, the last that stops before t when
\* playing backwards; -1 when there is none.
UpcomingInterval(t, m) ==
    LET after == {k \in 0..(NumIntervals - 1) : intervals.ivs[k + 1].start > t}
        before == {k \in 0..(NumIntervals - 1) : intervals.ivs[k + 1].stop < t}
    IN IF m >= 0
       THEN IF after = {} THEN -1 ELSE CHOOSE k \in after : \A j \in after : k <= j
       ELSE IF before = {} THEN -1 ELSE CHOOSE k \in before : \A j \in before : k >= j

\* C8: enabling a time-dynamic item while the clock's time is inside interval k
\* creates current for interval k at the item's opacity with
\* currentIntervalIdx = k, and creates next for interval k+1 (multiplier >= 0)
\* or k-1 (multiplier < 0) at opacity 0, not pickable, when that index is in
\* bounds; otherwise it creates no next and nextIntervalIdx = -1.
C8_EnableInsideInterval ==
    (lastOp = "enable" /\ IsTimeDynamic /\ ClockInInterval) =>
        /\ imageryLayer \in LiveLayers
        /\ CreatedByLastHandler(imageryLayer)
        /\ layers[imageryLayer].token = DataAt(ClockIndex)
        /\ layers[imageryLayer].alpha = opacity
        /\ currentIntervalIndex = ClockIndex
        /\ IF InBounds(Predicted(ClockIndex))
           THEN /\ nextLayer \in LiveLayers
                /\ nextLayer # imageryLayer
                /\ CreatedByLastHandler(nextLayer)
                /\ layers[nextLayer].token = DataAt(Predicted(ClockIndex))
                /\ layers[nextLayer].alpha = 0
                /\ ~layers[nextLayer].pick
                /\ nextIntervalIndex = Predicted(ClockIndex)
                /\ Cardinality(CallsOf("create")) = 2
           ELSE /\ nextLayer = None
                /\ nextIntervalIndex = NoIntervalIndex
                /\ Cardinality(CallsOf("create")) = 1

\* C8 witness: the item was enabled inside the second interval playing
\* backwards, and holds current and a next layer for the first interval.
C8_Witness ==
    /\ lastOp = "enable" /\ IsTimeDynamic
    /\ multiplier < 0
    /\ currentIntervalIndex = 1
    /\ nextLayer # None /\ nextIntervalIndex = 0

\* C9: enabling a time-dynamic item while the clock's time is inside no
\* interval leaves current unset (currentIntervalIdx = -1), raises no error and
\* creates only next, at opacity 0, for the upcoming interval in the playback
\* direction; when there is no such interval it creates no layer at all.
C9_EnableInGap ==
    (lastOp = "enable" /\ IsTimeDynamic /\ ~ClockInInterval) =>
        /\ imageryLayer = None
        /\ currentIntervalIndex = NoIntervalIndex
        /\ ~threw
        /\ LET u == UpcomingInterval(clockTime, multiplier) IN
           IF u >= 0
           THEN /\ nextLayer \in LiveLayers
                /\ CreatedByLastHandler(nextLayer)
                /\ Cardinality(CallsOf("create")) = 1
                /\ layers[nextLayer].token = DataAt(u)
                /\ layers[nextLayer].alpha = 0
                /\ nextIntervalIndex = u
           ELSE /\ nextLayer = None
                /\ CallsOf("create") = {}

\* C9 witness: the item was enabled in the gap between two intervals playing
\* backwards, and holds only a next layer, for the interval before the gap.
C9_Witness ==
    /\ lastOp = "enable" /\ IsTimeDynamic /\ ~ClockInInterval
    /\ multiplier < 0
    /\ imageryLayer = None
    /\ nextLayer # None /\ nextIntervalIndex = 0
    /\ NumIntervals > 1

C11_CurrentAndNextDiffer ==
    (imageryLayer # None /\ nextLayer # None) =>
        /\ currentIntervalIndex # nextIntervalIndex
        /\ imageryLayer # nextLayer

\* A tick has promoted the prefetched layer and prefetched another one.
C11_Witness ==
    /\ lastOp = "tick"
    /\ CallsOf("create") # {}
    /\ CallsOf("destroy") # {}
    /\ imageryLayer # None
    /\ nextLayer # None
    /\ currentIntervalIndex >= 0
    /\ nextIntervalIndex >= 0

\* ------------------------------------------------------------------- C12
\* The clock's multiplier is the one the item last observed: the last handler
\* was _enable or a delivered tick.
DirectionObserved == lastOp = "enable" \/ TickDelivered

\* C12: the next layer, when present together with a current layer, is bound
\* to the interval adjacent to current in the playback direction last
\* observed: current + 1 for a multiplier >= 0, current - 1 for a negative
\* one, a direction reversal at the first or last interval included.
C12_NextIsAdjacentInLastDirection ==
    (DirectionObserved /\ imageryLayer # None /\ nextLayer # None) =>
        nextIntervalIndex = Predicted(currentIntervalIndex)

\* C12 as the code has it: the next layer held with a current layer is bound
\* to an interval adjacent to current, and to the one in the direction last
\* observed whenever the collection has an interval there.
C12_NextIsAdjacent ==
    (imageryLayer # None /\ nextLayer # None) =>
        /\ nextIntervalIndex \in {currentIntervalIndex - 1, currentIntervalIndex + 1}
        /\ InBounds(nextIntervalIndex)
        /\ (DirectionObserved /\ InBounds(Predicted(currentIntervalIndex))) =>
               nextIntervalIndex = Predicted(currentIntervalIndex)

\* A tick inside the first or last interval has reversed the direction: no
\* interval lies in the new direction and the earlier prefetch is kept.
C12_Witness ==
    /\ TickDelivered
    /\ imageryLayer # None
    /\ nextLayer # None
    /\ ~InBounds(Predicted(currentIntervalIndex))
    /\ InBounds(nextIntervalIndex)
    /\ calls = << >>

\* ------------------------------------------------------------------- C13
\* C13: after disable the item holds no current and no next layer, and
\* currentIntervalIdx and nextIntervalIdx are both -1.
C13_DisableClearsSlots ==
    lastOp = "disable" =>
        /\ imageryLayer = None
        /\ nextLayer = None
        /\ currentIntervalIndex = NoIntervalIndex
        /\ nextIntervalIndex = NoIntervalIndex

C15_TickIgnoredUnlessEnabledShownDynamic ==
    [][(lastOp' = "deliver" /\ (~isEnabled \/ ~isShown \/ ~IsTimeDynamic)) =>
          /\ calls' = << >>
          /\ layers' = layers
          /\ imageryLayer' = imageryLayer
          /\ nextLayer' = nextLayer
          /\ currentIntervalIndex' = currentIntervalIndex
          /\ nextIntervalIndex' = nextIntervalIndex]_vars

\* ------------------------------------------------------------------- C16
\* C16: an opacity change made while the item is enabled and shown sets the
\* current layer's opacity to the new value and changes no other layer's, the
\* next layer's included; made while the item is disabled or hidden it
\* changes no layer's opacity.
C16_OpacityChangeReachesCurrentOnly ==
    [][lastOp' = "opacity" =>
          IF isEnabled /\ isShown
          THEN /\ imageryLayer # None => layers'[imageryLayer].alpha = opacity'
               /\ \A h \in Handles \ {imageryLayer} : layers'[h].alpha = layers[h].alpha
          ELSE \A h \in Handles : layers'[h].alpha = layers[h].alpha]_vars

\* The opacity was changed to 10 on an enabled, shown item holding a current
\* and a next layer.
C16_Witness ==
    /\ lastOp = "opacity"
    /\ isEnabled
    /\ isShown
    /\ opacity = 10
    /\ imageryLayer # None
    /\ nextLayer # None
    /\ layers[imageryLayer].alpha = 10
    /\ layers[nextLayer].alpha = 0

\* ------------------------------------------------------------------- C17
\* C17: in every state between callbacks the layer held in next is in the
\* viewer at opacity 0.
C17_NextIsTransparent ==
    nextLayer # None =>
        /\ nextLayer \in LiveLayers
        /\ layers[nextLayer].alpha = 0

\* The item's opacity has been changed while it holds a next layer created by
\* a tick's prefetch step.
C17_Witness ==
    /\ nextLayer # None
    /\ imageryLayer # None
    /\ numCreated >= 3
    /\ opacity = 10
    /\ layers[imageryLayer].alpha = 10
    /\ layers[nextLayer].alpha = 0

C19_ShowHideTouchVisibilityOnly ==
    [][lastOp' \in {"show", "hide"} =>
          /\ imageryLayer' = imageryLayer
          /\ nextLayer' = nextLayer
          /\ currentIntervalIndex' = currentIntervalIndex
          /\ nextIntervalIndex' = nextIntervalIndex
          /\ numCreated' = numCreated
          /\ \A h \in Handles :
                 /\ layers'[h].destroys = layers[h].destroys
                 /\ layers'[h].alpha = layers[h].alpha
                 /\ layers'[h].pick = layers[h].pick
                 /\ layers'[h].token = layers[h].token
          /\ \A h \in {imageryLayer, nextLayer} \ {None} :
                 layers'[h].show = (lastOp' = "show")]_vars

\* The item, holding a current and a next layer, was hidden and shown again:
\* both layers are visible.
C19_Witness ==
    /\ lastOp = "show"
    /\ imageryLayer # None
    /\ nextLayer # None
    /\ layers[imageryLayer].show
    /\ layers[nextLayer].show
    /\ Len(calls) = 2

\* ------------------------------------------------------------------- C20
\* C20: when the viewer's load-error or projection-error callback fires for a
\* layer, the item forwards a notification to the error channel and hides
\* that layer; the callback creates no layer, raises no exception, and leaves
\* current, next and both interval indices unchanged.
C20_ErrorCallbackHidesAndNotifies ==
    [][lastOp' \in {"loadError", "projectionError"} =>
          /\ ~threw'
          /\ \A i \in 1..Len(calls') :
                 /\ calls'[i].op # "create"
                 /\ calls'[i].op = "notify" => ~layers'[calls'[i].h].show
          /\ lastOp' = "projectionError" =>
                 \E i \in 1..Len(calls') : calls'[i].op = "notify"
          /\ numCreated' = numCreated
          /\ imageryLayer' = imageryLayer
          /\ nextLayer' = nextLayer
          /\ currentIntervalIndex' = currentIntervalIndex
          /\ nextIntervalIndex' = nextIntervalIndex]_vars

\* ------------------------------------------------------------------- C21
\* C21: after a load or projection error on the layer of interval k, a later
\* tick that lands on any other interval j ends with current bound to j, in
\* the viewer, shown, at the item's configured opacity.
C21_PlaybackContinuesAfterError ==
    (/\ TickDelivered
     /\ failedToken # "none"
     /\ ClockInInterval
     /\ DataAt(ClockIndex) # failedToken) =>
        /\ imageryLayer \in LiveLayers
        /\ currentIntervalIndex = ClockIndex
        /\ layers[imageryLayer].token = DataAt(ClockIndex)
        /\ layers[imageryLayer].show
        /\ layers[imageryLayer].alpha = opacity

\* ------------------------------------------------------------------- C22
\* C22: a tick delivered while a tick handler of the same item is still
\* running does not act on the intermediate state: the handler ends as it
\* would have without the nested tick, with the same current and next, the
\* same indices, no extra layer created and no layer leaked or destroyed twice.
C22_NestedTickHasNoEffect ==
    [][lastOp' = "nestedTick" =>
          LET p == onClockTick(Begin, clockTime', multiplier', isEnabled, isShown, opacity) IN
          /\ numCreated' = p.n
          /\ layers' = p.layers
          /\ imageryLayer' = p.imageryLayer
          /\ nextLayer' = p.nextLayer
          /\ currentIntervalIndex' = p.cur
          /\ nextIntervalIndex' = p.nxt]_vars

\* ------------------------------------------------------------------- C23
\* Times before lo snap to lo, times after hi snap to hi, times inside are
\* used as they are.
Clamp(t, lo, hi) == IF t < lo THEN lo ELSE IF t > hi THEN hi ELSE t

\* This read of catalogItem.clock built the clock and resolved its time.
ClockResolved == lastOp' = "readClock" /\ ~_clock.installed /\ _clock'.installed /\ ~threw'

\* C23: the initial clock time is now clamped into [start, stop] for
\* "present" or an undefined initialTimeSource, exactly start for "start" and
\* exactly stop for "end" whatever now is, and the timestamp clamped into
\* [start, stop] for an ISO8601 literal.
C23_InitialTimeResolution ==
    [][ClockResolved =>
          LET start == intervals.ivs[1].start
              stop == intervals.ivs[NumIntervals].stop
              source == initialTimeSource
          IN /\ _clock'.startTime = start
             /\ _clock'.stopTime = stop
             /\ (source = Undefined \/ source = Word("present")) =>
                    _clock'.currentTime = Clamp(now', start, stop)
             /\ source = Word("start") => _clock'.currentTime = start
             /\ source = Word("end") => _clock'.currentTime = stop
             /\ source.kind = "iso8601" =>
                    _clock'.currentTime = Clamp(source.time, start, stop)]_vars

\* A timestamp after the last interval's stop was resolved to the stop, while
\* now was before the first interval's start.
C23_Witness ==
    /\ lastOp = "readClock"
    /\ _clock.installed
    /\ ~threw
    /\ initialTimeSource.kind = "iso8601"
    /\ initialTimeSource.time > _clock.stopTime
    /\ now < _clock.startTime
    /\ _clock.currentTime = _clock.stopTime

\* ------------------------------------------------------------------- C24
\* The initialTimeSource is none of "present", "start", "end" and no ISO8601
\* timestamp.
Unparsable(source) ==
    /\ source.kind # "undefined"
    /\ source \notin {Word("present"), Word("start"), Word("end")}
    /\ fromIso8601(source).threw

C30_FailedResolutionInstallsNoClock ==
    [][(/\ lastOp' = "readClock"
        /\ IsTimeDynamic
        /\ Unparsable(initialTimeSource)) =>
          /\ threw'
          /\ ~_clock'.installed]_vars

\* ------------------------------------------------------------------- C25
\* The entry has unparsable bounds or a start after its stop.
Malformed(e) == ~e.parsable \/ e.start > e.stop

\* C25: when an entry of json.intervals has unparsable bounds or a start after
\* its stop, or the item does not support intervals, the load throws and
\* catalogItem.intervals keeps the value it had.
C25_BadIntervalsLoadFails ==
    [][(/\ lastOp' = "update"
        /\ json'.def
        /\ \/ ~supportsIntervals
           \/ \E i \in 1..Len(json'.entries) : Malformed(json'.entries[i])) =>
          /\ threw'
          /\ intervals' = intervals]_vars

\* ------------------------------------------------------------------- C26
\* The index of the first interval starting after t, the number of intervals
\* when there is none.
FirstStartingAfter(t) ==
    LET after == {k \in 0..(NumIntervals - 1) : intervals.ivs[k + 1].start > t}
    IN IF after = {} THEN NumIntervals ELSE CHOOSE k \in after : \A j \in after : k <= j

\* t is at or after interval k's start and before its stop.
InHalfOpen(k, t) == intervals.ivs[k + 1].start <= t /\ t < intervals.ivs[k + 1].stop

\* _enable, run outside every interval, has taken the next index from the
\* complement of the query's result (lines 350-358, 367-371).
EnableUsesInsertionPoint ==
    (lastOp = "enable" /\ IsTimeDynamic /\ ClockIndex < 0) =>
        LET nextIndex == IF multiplier < 0
                         THEN Complement(ClockIndex) - 1
                         ELSE Complement(ClockIndex)
        IN nextIntervalIndex = IF InBounds(nextIndex) THEN nextIndex ELSE NoIntervalIndex

C27_LiveLayersAreCurrentAndNext ==
    LiveLayers = {imageryLayer, nextLayer} \ {None}

\* ------------------------------------------------------------------- C28
\* The playback direction the prefetch step reads from a multiplier.
Forward(m) == m >= 0

\* C28: a second tick with the same time and the same multiplier sign,
\* delivered right after a first one while the item is enabled and shown,
\* issues no viewer call and leaves current, next and both indices unchanged.
C28_RepeatedTickIsIdle ==
    [][(/\ TickDelivered
        /\ lastOp' = "tick"
        /\ clockTime' = clockTime
        /\ Forward(multiplier') = Forward(multiplier)) =>
          /\ calls' = << >>
          /\ layers' = layers
          /\ numCreated' = numCreated
          /\ imageryLayer' = imageryLayer
          /\ nextLayer' = nextLayer
          /\ currentIntervalIndex' = currentIntervalIndex
          /\ nextIntervalIndex' = nextIntervalIndex]_vars

\* A delivered tick found nothing to do on an item that holds a current layer
\* and a next layer created by an earlier tick.
C28_Witness ==
    /\ TickDelivered
    /\ calls = << >>
    /\ numCreated >= 3
    /\ imageryLayer # None
    /\ nextLayer # None
    /\ ClockIndex = currentIntervalIndex
    /\ nextIntervalIndex = Predicted(currentIntervalIndex)

\* ------------------------------------------------------------------- C29
\* C29: whenever the item is enabled and shown and holds a current layer,
\* that layer's opacity is the item's configured opacity.
C29_CurrentHasConfiguredOpacity ==
    (isEnabled /\ isShown /\ imageryLayer # None) =>
        layers[imageryLayer].alpha = opacity

\* ================================================================ ViewState
\* The catalog item as constructed and left alone, while the rest of the
\* application runs.
ItemIdle ==
    /\ ItemInit
    /\ clockTime = 0
    /\ multiplier = 0
    /\ intervals = NoIntervals
    /\ initialTimeSource = Undefined
    /\ _clock = NoClock
    /\ now = 0
    /\ lastError = NoError
    /\ supportsIntervals = TRUE
    /\ json = NoJson

\* The application after construction.
InitView == ItemIdle /\ ViewInit

\* The errors raised on terria.error: a TerriaError carries sender, title and
\* message.
Senders == {"item", "catalog"}

Titles == {"t1", "t2"}

Messages == {"m1", "m2", "m3"}

ErrorEvents == [sender : Senders, title : Titles, message : Messages]

\* notifications.filter(item => item.title === e.title &&
\* item.message === e.message)
filter(list, e) ==
    SelectSeq(list, LAMBDA item : item.title = e.title /\ item.message = e.message)

errorListenerAlwaysPushes(list, e) ==
    Append(list, [title |-> e.title, message |-> e.message])

\* The listener the constructor adds to terria.error (lines 97-105).
errorListener(list, e) ==
    IF Len(filter(list, e)) = 0
    THEN Append(list, [title |-> e.title, message |-> e.message])
    ELSE list

\* terria.error raises e.
RaiseError ==
    \E e \in ErrorEvents :
        /\ notifications' = errorListener(notifications, e)
        /\ lastEvent' = e
        /\ UNCHANGED << itemVars, colorMapVars, tilesVars, highlightVars, serializeVars, searchBoxVars, zoomVars, panelVars >>

NextViewState == RaiseError

SpecViewState == InitView /\ [][NextViewState]_vars

\* ------------------------------------------------------------------- C31
\* C31: the notifications list never holds two entries with the same title
\* and the same message.
C31_NoDuplicateNotifications ==
    \A i, j \in 1..Len(notifications) :
        i # j => ~(/\ notifications[i].title = notifications[j].title
                   /\ notifications[i].message = notifications[j].message)

\* An error equal to a notification listed before the last one has just been
\* raised, and the list holds it once.
C31_Witness ==
    /\ Len(notifications) >= 2
    /\ lastEvent # NoEvent
    /\ \E i \in 1..(Len(notifications) - 1) :
           /\ notifications[i].title = lastEvent.title
           /\ notifications[i].message = lastEvent.message

\* ================================================================= ColorMap
MaxCalls == 4

\* The contents the palette file can have.
Palettes == {"brewerA", "brewerB"}

\* ColorMap.colorBrewerJSON: the stored promise, or the contents.
StoredPromise == [kind |-> "promise", value |-> ""]

Contents(j) == [kind |-> "json", value |-> j]

\* The module state colorBrewerFile reads and writes, with the value it
\* returns.
ColorMapState ==
    [colorBrewerJSON |-> colorBrewerJSON, requests |-> requests,
     loadState |-> loadState, returned |-> "none"]

\* loadJson('build/TerriaJS/data/colorbrewer.json'): one more request is sent.
loadJson(c) == [c EXCEPT !.requests = @ + 1, !.loadState = "pending"]

colorBrewerFileStoresNothing(c) ==
    IF c.colorBrewerJSON.kind = "json"
    THEN [c EXCEPT !.returned = "cached"]
    ELSE [loadJson(c) EXCEPT !.returned = "load"]

\* ColorMap.colorBrewerFile (lines 49-61).  A stored promise and stored
\* contents are both truthy; when(x) of the stored promise follows that
\* promise, when(x) of the contents is resolved with them.
colorBrewerFile(c) ==
    IF c.colorBrewerJSON.kind # "undefined"
    THEN [c EXCEPT !.returned =
              IF c.colorBrewerJSON.kind = "promise" THEN "load" ELSE "cached"]
    ELSE [loadJson(c) EXCEPT !.colorBrewerJSON = StoredPromise,
                             !.returned = "load"]

\* A caller's promise: from the load or from the cache, with the contents the
\* cache held at the call, and what its callback has received.
Caller(from, value) == [from |-> from, value |-> value, got |-> "nothing"]

\* Some code calls ColorMap.colorBrewerFile().
CallColorBrewerFile ==
    /\ Len(callers) < MaxCalls
    /\ LET c == colorBrewerFile(ColorMapState) IN
        /\ colorBrewerJSON' = c.colorBrewerJSON
        /\ requests' = c.requests
        /\ loadState' = c.loadState
        /\ callers' = Append(callers, Caller(c.returned, colorBrewerJSON.value))
    /\ UNCHANGED << itemVars, viewStateVars, tilesVars, highlightVars, serializeVars, searchBoxVars, zoomVars, panelVars >>

\* The request completes with contents j: the then-callback of lines 55-58
\* stores them.
LoadResolves ==
    \E j \in Palettes :
        /\ loadState = "pending"
        /\ loadState' = j
        /\ colorBrewerJSON' = Contents(j)
        /\ UNCHANGED << requests, callers, itemVars, viewStateVars, tilesVars, highlightVars, serializeVars, searchBoxVars, zoomVars, panelVars >>

\* The request fails: the stored promise is rejected and stays stored.
LoadRejects ==
    /\ loadState = "pending"
    /\ loadState' = "error"
    /\ UNCHANGED << colorBrewerJSON, requests, callers, itemVars, viewStateVars, tilesVars, highlightVars, serializeVars, searchBoxVars, zoomVars, panelVars >>

\* The callback of caller i runs with the outcome of its promise.
Deliver ==
    \E i \in 1..Len(callers) :
        /\ callers[i].got = "nothing"
        /\ callers[i].from = "load" => loadState \notin {"none", "pending"}
        /\ callers' = [callers EXCEPT ![i].got =
                          IF callers[i].from = "load" THEN loadState
                          ELSE callers[i].value]
        /\ UNCHANGED << colorBrewerJSON, requests, loadState, itemVars, viewStateVars, tilesVars, highlightVars, serializeVars, searchBoxVars, zoomVars, panelVars >>

NextColorMap == CallColorBrewerFile \/ LoadResolves \/ LoadRejects \/ Deliver

SpecColorMap == InitView /\ [][NextColorMap]_vars

\* ------------------------------------------------------------------- C32
\* C32: at most one load request for the palette file is issued; a call made
\* while the request is in flight or after it failed gets the stored promise,
\* a call made after completion gets the cached contents, and every callback
\* that ran received the outcome of the one request.
C32_AtMostOneLoadRequest ==
    /\ requests <= 1
    /\ \A i \in 1..Len(callers) :
           /\ callers[i].from \in {"load", "cached"}
           /\ callers[i].from = "cached" =>
                  /\ loadState \in Palettes
                  /\ callers[i].value = loadState
           /\ callers[i].got # "nothing" => callers[i].got = loadState

\* Two calls overlapped the request and a third came after its completion.
C32_Witness ==
    /\ Len(callers) >= 3
    /\ callers[1].from = "load"
    /\ callers[2].from = "load"
    /\ callers[3].from = "cached"
    /\ callers[2].got \in Palettes

\* ================================================== GlobeOrMap: tile progress
MaxCount == 3

MaxReports == 4

TileCounts == 0..MaxCount

updateTilesLoadingCountKeepsMax(max, tilesLoadingCount) ==
    IF tilesLoadingCount > max THEN tilesLoadingCount ELSE max

\* GlobeOrMap.prototype.updateTilesLoadingCount (lines 114-122): the value of
\* _tilesLoadingCountMax after the call.
updateTilesLoadingCount(max, tilesLoadingCount) ==
    IF tilesLoadingCount > max THEN tilesLoadingCount
    ELSE IF tilesLoadingCount = 0 THEN 0
    ELSE max

\* The viewer reports that tilesLoadingCount tiles are loading.
ReportTiles ==
    \E tilesLoadingCount \in TileCounts :
        /\ Len(counts) < MaxReports
        /\ _tilesLoadingCountMax' =
               updateTilesLoadingCount(_tilesLoadingCountMax, tilesLoadingCount)
        /\ progressEvent' = << tilesLoadingCount, _tilesLoadingCountMax' >>
        /\ counts' = Append(counts, tilesLoadingCount)
        /\ UNCHANGED << itemVars, viewStateVars, colorMapVars, highlightVars, serializeVars, searchBoxVars, zoomVars, panelVars >>

NextTiles == ReportTiles

SpecTiles == InitView /\ [][NextTiles]_vars

\* The largest of the counts reported after the last report of 0, 0 if none.
RECURSIVE LargestSinceZero(_)
LargestSinceZero(cs) ==
    IF cs = << >> \/ cs[Len(cs)] = 0 THEN 0
    ELSE LET rest == LargestSinceZero(SubSeq(cs, 1, Len(cs) - 1)) IN
         IF cs[Len(cs)] > rest THEN cs[Len(cs)] ELSE rest

\* ------------------------------------------------------------------- C33
\* C33: the tracked maximum is the largest count reported since the most
\* recent report of 0, and the pair raised last is (count, max) with
\* count <= max.
C33_MaxSinceLastZero ==
    /\ _tilesLoadingCountMax = LargestSinceZero(counts)
    /\ counts # << >> =>
           /\ progressEvent = << counts[Len(counts)], _tilesLoadingCountMax >>
           /\ progressEvent[1] <= progressEvent[2]

\* A report of 0 came between a larger and a smaller count.
C33_Witness ==
    /\ Len(counts) >= 3
    /\ counts[2] = 0
    /\ counts[3] > 0
    /\ counts[1] > counts[3]
    /\ _tilesLoadingCountMax = counts[3]

\* ================================================ GlobeOrMap: feature highlight
HasPolygon(f) == f \in {"area", "both"}

HasPolyline(f) == f \in {"line", "both"}

\* featureDataToGeoJson(feature.data) gives a geometry that is not a point.
HasShape(f) == f = "raster"

\* The highlight state _highlightFeature and the load callbacks work on.
Highlight ==
    [cb |-> _removeHighlightCallback, promise |-> _highlightPromise,
     styling |-> styling, items |-> highlightItems, n |-> numHighlightItems]

\* The callback of lines 262-266, which closes over the feature and its
\* polygon values.
PolygonCallback(f, saved) ==
    [NoCallback EXCEPT !.kind = "polygon", !.feature = f, !.polygon = saved]

\* The callback of lines 278-281.
PolylineCallback(f, saved) ==
    [NoCallback EXCEPT !.kind = "polyline", !.feature = f, !.polyline = saved]

\* The callback of lines 306-314, which closes over the catalog item.
ItemCallback(i) == [NoCallback EXCEPT !.kind = "item", !.item = i]

\* promise.then(callback) on a promise that is already fulfilled calls the
\* callback before it returns.
ThenRunsNow(item) == item.load = "loaded"

\* The function given to _highlightPromise.then in removeCallback (lines
\* 308-313) for item i.
hideIfCurrent(h, i) ==
    IF h.cb # ItemCallback(i) THEN h
    ELSE [h EXCEPT !.items[i].shown = FALSE, !.items[i].enabled = FALSE]

\* Calling this._removeHighlightCallback().
removeHighlight(h) ==
    IF h.cb.kind = "polygon"
    THEN [h EXCEPT !.styling[h.cb.feature].polygon = h.cb.polygon]
    ELSE IF h.cb.kind = "polyline"
    THEN [h EXCEPT !.styling[h.cb.feature].polyline = h.cb.polyline]
    ELSE IF h.promise = 0 THEN h
    ELSE IF ThenRunsNow(h.items[h.promise]) THEN hideIfCurrent(h, h.cb.item)
    ELSE IF h.items[h.promise].load = "pending"
    THEN [h EXCEPT !.items[h.cb.item].removing = TRUE]
    ELSE h

\* Lines 249-253.
removePrevious(h) ==
    IF h.cb.kind = "undefined" THEN h
    ELSE [removeHighlight(h) EXCEPT !.cb = NoCallback, !.promise = 0]

\* Lines 258-267.
highlightPolygon(h, f) ==
    IF ~HasPolygon(f) THEN h
    ELSE [h EXCEPT !.styling[f].polygon =
                       [outline |-> TRUE, outlineColor |-> "contrast",
                        material |-> "contrast75"],
                   !.cb = PolygonCallback(f, h.styling[f].polygon)]

\* Lines 270-282.
highlightPolyline(h, f) ==
    IF ~HasPolyline(f) THEN h
    ELSE [h EXCEPT !.styling[f].polyline = [material |-> "contrast", width |-> 2],
                   !.cb = PolylineCallback(f, h.styling[f].polyline)]

\* Lines 284-324: a GeoJsonCatalogItem is created and its load started.
highlightShape(h, f) ==
    IF HasPolygon(f) \/ HasPolyline(f) \/ ~HasShape(f) THEN h
    ELSE [h EXCEPT !.n = @ + 1,
                   !.items[h.n + 1] = [NoItem EXCEPT !.load = "pending"],
                   !.cb = ItemCallback(h.n + 1),
                   !.promise = h.n + 1]

\* GlobeOrMap.prototype._highlightFeature (lines 248-327); f is "undefined"
\* when no feature is given.
_highlightFeature(h, f) ==
    IF f = "undefined" THEN removePrevious(h)
    ELSE highlightShape(highlightPolyline(highlightPolygon(removePrevious(h), f), f), f)

loadCallbackUnchecked(h, i) ==
    [h EXCEPT !.items[i].enabled = TRUE, !.items[i].shown = TRUE]

\* The function given to catalogItem.load().then (lines 316-323) for item i.
loadCallback(h, i) ==
    IF h.cb # ItemCallback(i) THEN h
    ELSE [h EXCEPT !.items[i].enabled = TRUE, !.items[i].shown = TRUE]

\* The load of item i is fulfilled: its callback runs, then the one a removal
\* has added to _highlightPromise meanwhile.
loadFulfilled(h, i) ==
    LET loaded == loadCallback([h EXCEPT !.items[i].load = "loaded"], i) IN
    IF h.items[i].removing
    THEN hideIfCurrent([loaded EXCEPT !.items[i].removing = FALSE], i)
    ELSE loaded

SetHighlight(h) ==
    /\ _removeHighlightCallback' = h.cb
    /\ _highlightPromise' = h.promise
    /\ styling' = h.styling
    /\ highlightItems' = h.items
    /\ numHighlightItems' = h.n
    /\ UNCHANGED << itemVars, viewStateVars, colorMapVars, tilesVars, serializeVars, searchBoxVars, zoomVars, panelVars >>

\* The selected feature changes to f, or to none.
HighlightFeature ==
    \E f \in Features \cup {"undefined"} :
        /\ HasShape(f) => numHighlightItems < MaxItems
        /\ SetHighlight(_highlightFeature(Highlight, f))

\* The load of highlight item i completes.
LoadCompletes ==
    \E i \in 1..numHighlightItems :
        /\ highlightItems[i].load = "pending"
        /\ SetHighlight(loadFulfilled(Highlight, i))

\* The load of highlight item i fails: neither callback runs.
LoadFails ==
    \E i \in 1..numHighlightItems :
        /\ highlightItems[i].load = "pending"
        /\ SetHighlight([Highlight EXCEPT !.items[i].load = "failed",
                                          !.items[i].removing = FALSE])

NextHighlight == HighlightFeature \/ LoadCompletes \/ LoadFails

SpecHighlight == InitView /\ [][NextHighlight]_vars

\* ------------------------------------------------------------------- C34
\* C34: a highlight catalog item is enabled or shown only while it is the
\* item of the current highlight: an item of a replaced or cleared highlight
\* is not enabled by its late load and does not stay shown.
C34_NoStaleHighlightItem ==
    \A i \in 1..numHighlightItems :
        (highlightItems[i].enabled \/ highlightItems[i].shown) =>
            _removeHighlightCallback = ItemCallback(i)

\* Every item has loaded, the earlier ones belong to replaced highlights, and
\* the item of the current highlight is shown.
C34_Witness ==
    /\ numHighlightItems = MaxItems
    /\ \A i \in 1..MaxItems : highlightItems[i].load = "loaded"
    /\ _removeHighlightCallback = ItemCallback(MaxItems)
    /\ highlightItems[MaxItems].shown

\* ------------------------------------------------------------------- C35
\* C35: once the highlight is cleared, every feature's polygon outline,
\* outlineColor and material and polyline material and width have their
\* values of before the highlight.
C35_ClearRestoresStyling ==
    _removeHighlightCallback = NoCallback =>
        \A f \in Features : styling[f] = OriginalStyling

\* ============================================== defaultSerializers.intervals
\* ImageryLayerCatalogItem.defaultSerializers.intervals(catalogItem, json)
\* (lines 284-297): the destination json afterwards, and whether it threw.
\* The loop pushes its records to the local result, which is assigned to no
\* property of json.  It reads catalogItem.intervals[i], which a
\* TimeIntervalCollection does not have, so TimeInterval.toIso8601 is given
\* undefined and throws on the first interval.
serializeIntervals(ivs, dest) ==
    [json |-> dest, threw |-> ivs.def /\ Len(ivs.ivs) > 0]

\* serializeToJson runs the intervals serializer on a new json object.
Serialize ==
    LET r == serializeIntervals(intervals, NoJson) IN
    /\ serialized' = r.json
    /\ threw' = r.threw
    /\ lastOp' = "serialize"
    /\ UNCHANGED << intervals, clockTime, multiplier, isEnabled, isShown, opacity,
                    imageryLayer, nextLayer, currentIntervalIndex,
                    nextIntervalIndex, clockTickSubscription, onTickListeners,
                    layers, numCreated, calls, failedToken, initialTimeSource,
                    _clock, now, lastError, supportsIntervals, json >>
    /\ UNCHANGED << viewStateVars, colorMapVars, tilesVars, highlightVars,
                    searchBoxVars, zoomVars, panelVars >>

NextSerialize == UpdateIntervals \/ Serialize

SpecSerialize == InitLoad /\ [][NextSerialize]_vars

\* ------------------------------------------------------------------- C36
\* C36: after the serialization of an item whose intervals are defined, the
\* destination json has an intervals entry, and the intervals updater run on
\* it for a new item gives the item's intervals and data tokens.
C36_SerializedIntervalsRoundTrip ==
    (lastOp = "serialize" /\ intervals.def) =>
        /\ serialized.def
        /\ updateIntervals(NoIntervals, TRUE, serialized).intervals = intervals

\* ================================================================ SearchBox
MaxTimers == 4

\* The texts of the search field.
Texts == {"", "a", "ab"}

\* The component's timer state a handler works on.
SearchBox ==
    [debounceTimeout |-> debounceTimeout, timers |-> timers, n |-> numTimers,
     searched |-> searched]

\* clearTimeout(id)
clearTimeout(b, id) == [b EXCEPT !.timers = @ \ {id}]

\* setTimeout(callback, 2000): the id of the new timer is b.n + 1.
setTimeout(b) == [b EXCEPT !.n = @ + 1, !.timers = @ \cup {b.n + 1}]

\* removeDebounce (lines 644-649); 0 stands for undefined.
removeDebounce(b) ==
    IF b.debounceTimeout # 0
    THEN [clearTimeout(b, b.debounceTimeout) EXCEPT !.debounceTimeout = 0]
    ELSE b

searchWithDebounceKeepsTimer(b, text) ==
    IF Len(text) > 0
    THEN [setTimeout(b) EXCEPT !.debounceTimeout = b.n + 1]
    ELSE b

\* searchWithDebounce (lines 628-637), props.searchText being text.
searchWithDebounce(b, text) ==
    LET r == removeDebounce(b) IN
    IF Len(text) > 0
    THEN [setTimeout(r) EXCEPT !.debounceTimeout = r.n + 1]
    ELSE r

\* search (lines 639-642): props.onDoSearch searches for text.
search(b, text) == [removeDebounce(b) EXCEPT !.searched = text]

SetSearchBox(b, text, op) ==
    /\ debounceTimeout' = b.debounceTimeout
    /\ timers' = b.timers
    /\ numTimers' = b.n
    /\ searched' = b.searched
    /\ searchText' = text
    /\ searchBoxOp' = op
    /\ UNCHANGED << mounted, itemVars, viewStateVars, colorMapVars, tilesVars,
                    highlightVars, serializeVars, zoomVars, panelVars >>

\* handleChange (lines 651-655): the field's text becomes value.  The parent
\* puts value in props.searchText during onSearchTextChanged or at the
\* re-render after the handler: searchWithDebounce reads either text.
HandleChange ==
    \E value \in Texts : \E seen \in {searchText, value} :
        /\ mounted
        /\ numTimers < MaxTimers
        /\ SetSearchBox(searchWithDebounce(SearchBox, seen), value, "change")

\* onKeyDown with keyCode 13 (lines 662-666).
KeyDownEnter ==
    /\ mounted
    /\ SetSearchBox(search(SearchBox, searchText), searchText, "search")

\* clearSearch (lines 657-660).
ClearSearch ==
    /\ mounted
    /\ SetSearchBox(search(SearchBox, ""), "", "clear")

\* The timer id fires: its callback (lines 633-635) calls search.
TimerFires ==
    \E id \in timers :
        SetSearchBox(search([SearchBox EXCEPT !.timers = @ \ {id}], searchText),
                     searchText, "timer")

\* componentWillUnmount (lines 620-622).
Unmount ==
    /\ mounted
    /\ mounted' = FALSE
    /\ LET b == removeDebounce(SearchBox) IN
        /\ debounceTimeout' = b.debounceTimeout
        /\ timers' = b.timers
    /\ searchBoxOp' = "unmount"
    /\ UNCHANGED << searchText, numTimers, searched, itemVars, viewStateVars,
                    colorMapVars, tilesVars, highlightVars, serializeVars, zoomVars, panelVars >>

NextSearchBox == HandleChange \/ KeyDownEnter \/ ClearSearch \/ TimerFires \/ Unmount

SpecSearchBox == InitView /\ [][NextSearchBox]_vars

\* ------------------------------------------------------------------- C37
\* C37: at most one debounce timer is pending and it is the one the component
\* holds; after a text change no timer older than that change is pending;
\* after an explicit search and after the unmount none is pending.
C37_OneDebounceTimer ==
    /\ Cardinality(timers) <= 1
    /\ timers \subseteq {debounceTimeout}
    /\ searchBoxOp = "change" => timers \subseteq {numTimers}
    /\ searchBoxOp \in {"search", "clear"} => timers = {}
    /\ ~mounted => timers = {}

\* A burst of text changes has replaced the timers of its earlier inputs by
\* the timer of its last input.
C37_Witness ==
    /\ searchBoxOp = "change"
    /\ numTimers >= 3
    /\ timers = {numTimers}
    /\ searched = "none"

\* ============================================================== ZoomControl
\* The tweens that are neither completed nor cancelled.
ActiveTweens == {t \in 1..numTweens : tweens[t].state = "active"}

\* The camera controller and the scene's tweens, as flyToPosition and the
\* tween callbacks work on them.
Zoom == [enableInputs |-> enableInputs, tweens |-> tweens, n |-> numTweens]

\* flyToPosition (lines 18-59) towards the end position of a zoom in or out.
flyToPosition(z, zoom) ==
    [z EXCEPT !.enableInputs = FALSE,
              !.n = @ + 1,
              !.tweens[z.n + 1] = [zoom |-> zoom, state |-> "active"]]

\* The complete callback of the tween (lines 45-50).
complete(z, destroyed) ==
    IF destroyed THEN z ELSE [z EXCEPT !.enableInputs = TRUE]

\* The cancel callback of the tween (lines 51-56).
cancel(z, destroyed) ==
    IF destroyed THEN z ELSE [z EXCEPT !.enableInputs = TRUE]

SetZoom(z) ==
    /\ enableInputs' = z.enableInputs
    /\ tweens' = z.tweens
    /\ numTweens' = z.n
    /\ UNCHANGED << controllerDestroyed, itemVars, viewStateVars, colorMapVars,
                    tilesVars, highlightVars, serializeVars, searchBoxVars, panelVars >>

\* zoomIn (lines 72-91) with the Cesium viewer.
ZoomIn ==
    /\ ~controllerDestroyed
    /\ numTweens < MaxTweens
    /\ SetZoom(flyToPosition(Zoom, "in"))

\* zoomOut (lines 93-111) with the Cesium viewer.
ZoomOut ==
    /\ ~controllerDestroyed
    /\ numTweens < MaxTweens
    /\ SetZoom(flyToPosition(Zoom, "out"))

\* Tween t reaches its duration.
TweenCompletes ==
    \E t \in ActiveTweens :
        SetZoom(complete([Zoom EXCEPT !.tweens[t].state = "completed"],
                         controllerDestroyed))

\* Tween t is removed from scene.tweens before its end.
TweenCancelled ==
    \E t \in ActiveTweens :
        SetZoom(cancel([Zoom EXCEPT !.tweens[t].state = "cancelled"],
                       controllerDestroyed))

\* The Cesium viewer is destroyed, its camera controller with it.
DestroyController ==
    /\ ~controllerDestroyed
    /\ controllerDestroyed' = TRUE
    /\ UNCHANGED << enableInputs, tweens, numTweens, itemVars, viewStateVars,
                    colorMapVars, tilesVars, highlightVars, serializeVars,
                    searchBoxVars, panelVars >>

NextZoom == ZoomIn \/ ZoomOut \/ TweenCompletes \/ TweenCancelled \/ DestroyController

SpecZoom == InitView /\ [][NextZoom]_vars

\* ------------------------------------------------------------------- C38
\* C38: unless the controller is destroyed, camera inputs are disabled while
\* a tween of the zoom control is in progress and enabled when none is.
C38_InputsDisabledWhileFlying ==
    ~controllerDestroyed => (enableInputs <=> ActiveTweens = {})

\* ========================================================= FeatureInfoPanel
\* The feature lists a pick can deliver.
FeatureLists == {<< >>, << "bare" >>, << "bare", "info" >>, << "info", "more" >>}

\* featureHasInfo (lines 596-598)
featureHasInfo(feature) == feature \in {"info", "more"}

\* pickedFeatures.features.filter(featureHasInfo)[0] of pick p; undefined
\* when no feature has info.
FirstWithInfo(pk, p) ==
    LET found == SelectSeq(pk[p].features, featureHasInfo) IN
    IF found = << >> THEN NoFeature ELSE [pick |-> p, feature |-> found[1]]

\* The entity 'Pick Location' made for pick p (lines 426-430).
FakeFeature(p) == [pick |-> p, feature |-> "Pick Location"]

\* The subscription to terria.pickedFeatures (lines 420-440): the value of
\* terria.selectedFeature when the observable has changed to pick p, 0 being
\* undefined.  The then-callback of lines 435-437 is left on the promise.
pickedFeaturesChanged(p) == IF p = 0 THEN NoFeature ELSE FakeFeature(p)

\* The then-callback of pick p (lines 435-437): the selected feature after
\* it.  The callback does not look at terria.pickedFeatures.
allFeaturesAvailable(pk, p) == FirstWithInfo(pk, p)

\* A pick is made: terria.pickedFeatures becomes a new PickedFeatures, with
\* or without an allFeaturesAvailablePromise.
Pick ==
    \E features \in FeatureLists, promised \in BOOLEAN :
        /\ numPicks < MaxPicks
        /\ numPicks' = numPicks + 1
        /\ picks' = [picks EXCEPT ![numPicks + 1] =
                        [features |-> features,
                         promise |-> IF promised THEN "pending" ELSE "undefined"]]
        /\ pickedFeatures' = numPicks + 1
        /\ selectedFeature' = pickedFeaturesChanged(numPicks + 1)
        /\ UNCHANGED << itemVars, viewStateVars, colorMapVars, tilesVars,
                        highlightVars, serializeVars, searchBoxVars, zoomVars >>

\* terria.pickedFeatures is set to undefined.
ClearPick ==
    /\ pickedFeatures # 0
    /\ pickedFeatures' = 0
    /\ selectedFeature' = pickedFeaturesChanged(0)
    /\ UNCHANGED << picks, numPicks, itemVars, viewStateVars, colorMapVars,
                    tilesVars, highlightVars, serializeVars, searchBoxVars,
                    zoomVars >>

\* The allFeaturesAvailablePromise of pick p resolves.
PromiseResolves ==
    \E p \in 1..numPicks :
        /\ picks[p].promise = "pending"
        /\ picks' = [picks EXCEPT ![p].promise = "resolved"]
        /\ selectedFeature' = allFeaturesAvailable(picks, p)
        /\ UNCHANGED << pickedFeatures, numPicks, itemVars, viewStateVars,
                        colorMapVars, tilesVars, highlightVars, serializeVars,
                        searchBoxVars, zoomVars >>

NextPanel == Pick \/ ClearPick \/ PromiseResolves

SpecPanel == InitView /\ [][NextPanel]_vars

\* No allFeaturesAvailablePromise is outstanding.
AllResolved == \A p \in 1..numPicks : picks[p].promise # "pending"

\* ------------------------------------------------------------------- C39
\* C39: once every outstanding allFeaturesAvailablePromise has resolved, the
\* selected feature is the first feature with info of the most recent pick,
\* in whatever order the promises resolved.
C39_SelectedFeatureOfLatestPick ==
    (/\ AllResolved
     /\ pickedFeatures # 0
     /\ picks[pickedFeatures].promise = "resolved") =>
        selectedFeature = FirstWithInfo(picks, pickedFeatures)

====
